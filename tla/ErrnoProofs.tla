----------------------------- MODULE ErrnoProofs -----------------------------
(***************************************************************************)
(* What errno tells a program and perror, for any set of failures and any  *)
(* nesting of handlers.                                                    *)
(***************************************************************************)
EXTENDS Errno, TLAPS

(* errno is the running frame's view of it, and every handler has saved    *)
(* the view of the frame it interrupted, unless another handler that       *)
(* returned there changed it.                                              *)
ViewInv ==
  /\ frames[depth].clean => errno = View(frames[depth])
  /\ \A i \in 1..MaxDepth :
       (i < depth /\ frames[i].clean) => frames[i + 1].saved = View(frames[i])

(* perror's copy is the failure it was called for. *)
CopyInv ==
  \A i \in 1..MaxDepth :
    frames[i].wanted # Unspecified => frames[i].backup = frames[i].wanted

(* perror writes before its test only when it has a prefix, and without    *)
(* one the last call still is the one it was called for.                   *)
Plain(f) ==
  /\ f.pc \notin {"returned", "zeroed"} => f.then = "idle"
  /\ (f.pc \in {"prefix", "colon"} \/ f.then \in {"prefix", "colon", "test"}) => f.prefixed
  /\ (f.pc = "test" /\ ~f.prefixed /\ f.wanted # Unspecified) => f.last = f.wanted

PlainInv == \A i \in 1..MaxDepth : Plain(frames[i])

Inv == TypeOK /\ ViewInv /\ CopyInv /\ PlainInv

LEMMA ResultNat == Result \subseteq Nat
  BY ErrnoAssumption DEF Result

LEMMA NewFrameType == \A e \in Result : NewFrame(e) \in Frame
  BY DEF NewFrame, Frame, Result, PC, Resume, Writes, NoMessage, Unspecified

(* An update of the running frame, and of nothing below it. *)
LEMMA BecomeFrame ==
  ASSUME TypeOK, NEW f \in Frame, Become(f)
  PROVE  /\ frames' \in [1..MaxDepth -> Frame]
         /\ depth' = depth
         /\ frames'[depth] = f
         /\ \A i \in 1..MaxDepth : i # depth => frames'[i] = frames[i]
  BY DEF TypeOK, Become

(* Every step keeps the types: a wrapper stores only what the kernel       *)
(* returned, a handler puts back only what it saved.                       *)
LEMMA StepType == TypeOK /\ [Next]_vars => TypeOK'
  <1> SUFFICES ASSUME TypeOK, [Next]_vars PROVE TypeOK'
    OBVIOUS
  <1>0. Top \in Frame /\ errno \in Result /\ depth \in 1..MaxDepth
    BY DEF TypeOK, Top
  <1>1. CASE SysCall
    <2>1. PICK r \in Result : Become([Top EXCEPT !.pc = "returned", !.then = After(Top.pc),
                                        !.ret = r, !.msg = NoMessage])
      BY <1>1 DEF SysCall
    <2>2. After(Top.pc) \in Resume
      BY DEF After, Resume, Writes
    <2>3. [Top EXCEPT !.pc = "returned", !.then = After(Top.pc),
                      !.ret = r, !.msg = NoMessage] \in Frame
      BY <1>0, <2>2 DEF Frame, PC, Resume
    <2> QED BY <1>0, <1>1, <2>1, <2>3, BecomeFrame DEF SysCall, TypeOK
  <1>2. CASE ClearErrno
    <2>1. [Top EXCEPT !.pc = "zeroed", !.clean = TRUE] \in Frame
      BY <1>0 DEF Frame, PC, Resume
    <2> QED BY <1>0, <1>2, <2>1, BecomeFrame DEF ClearErrno, TypeOK, Result
  <1>3. CASE StoreErrno
    <2> DEFINE c == Top.clean \/ Top.ret # 0
    <2>0. c \in BOOLEAN
      OBVIOUS
    <2>1. [Top EXCEPT !.pc = Top.then, !.then = "idle", !.ret = 0, !.last = Top.ret,
                      !.clean = c] \in Frame
      <3> HIDE DEF c
      <3> QED BY <1>0, <2>0 DEF Frame, PC, Resume, Result
    <2>2. errno' \in Result
      BY <1>0, <1>3 DEF StoreErrno, Frame
    <2> QED BY <1>0, <1>3, <2>1, <2>2, BecomeFrame DEF StoreErrno, TypeOK
  <1>4. CASE OpenCall
    <2>1. PICK r \in Result : Become([Top EXCEPT !.pc = "opened", !.ret = r])
      BY <1>4 DEF OpenCall
    <2>2. [Top EXCEPT !.pc = "opened", !.ret = r] \in Frame
      BY <1>0 DEF Frame, PC, Resume
    <2> QED BY <1>0, <1>4, <2>1, <2>2, BecomeFrame DEF OpenCall, TypeOK
  <1>5. CASE OpenStore
    <2>1. [Top EXCEPT !.pc = "idle", !.ret = 0, !.last = Top.ret, !.clean = TRUE] \in Frame
      BY <1>0 DEF Frame, PC, Resume, Result
    <2>2. errno' \in Result
      BY <1>0, <1>5 DEF OpenStore, Frame
    <2> QED BY <1>0, <1>5, <2>1, <2>2, BecomeFrame DEF OpenStore, TypeOK
  <1>6. CASE perror
    <2>1. PICK pc \in {"prefix", "test"} :
            Become([Top EXCEPT !.pc = pc, !.backup = errno, !.prefixed = (pc = "prefix"),
                      !.wanted = IF Top.clean THEN Top.last ELSE Unspecified])
      BY <1>6 DEF perror
    <2>2. [Top EXCEPT !.pc = pc, !.backup = errno, !.prefixed = (pc = "prefix"),
             !.wanted = IF Top.clean THEN Top.last ELSE Unspecified] \in Frame
      <3>1. (pc = "prefix") \in BOOLEAN
        OBVIOUS
      <3> QED BY <1>0, <3>1 DEF Frame, PC, Resume, Writes
    <2> QED BY <1>0, <1>6, <2>1, <2>2, BecomeFrame DEF perror, TypeOK
  <1>7. CASE Choose
    <2>0. Message \in {NoMessage, Unknown, Outside} \cup Result
      BY <1>0 DEF Message, Frame
    <2>1. PICK pc \in {"message", "crashed"} :
            Become([Top EXCEPT !.pc = pc, !.backup = 0, !.wanted = Unspecified,
                      !.prefixed = FALSE, !.msg = Message])
      BY <1>7 DEF Choose
    <2>2. [Top EXCEPT !.pc = pc, !.backup = 0, !.wanted = Unspecified,
             !.prefixed = FALSE, !.msg = Message] \in Frame
      BY <1>0, <2>0 DEF Frame, PC, Resume, Writes, Result
    <2> QED BY <1>0, <1>7, <2>1, <2>2, BecomeFrame DEF Choose, TypeOK
  <1>8. CASE Interrupt
    <2>1. depth + 1 \in 1..MaxDepth
      BY <1>0, <1>8, ErrnoAssumption DEF Interrupt
    <2> QED BY <1>0, <1>8, <2>1, NewFrameType DEF Interrupt, TypeOK
  <1>9. CASE HandlerReturn
    <2>1. /\ depth' = depth - 1 /\ depth > 1
          /\ errno' = Top.saved \/ errno' = errno
          /\ frames' = [frames EXCEPT ![depth] = NewFrame(0),
                          ![depth - 1].clean = @ /\ errno' = Top.saved]
      BY <1>9 DEF HandlerReturn
    <2>2. errno' \in Result
      BY <1>0, <2>1 DEF Frame
    <2>3. depth - 1 \in 1..MaxDepth /\ depth - 1 # depth
      BY <1>0, <2>1, ErrnoAssumption
    <2> DEFINE c == frames[depth - 1].clean /\ errno' = Top.saved
    <2>4. c \in BOOLEAN
      OBVIOUS
    <2>6. [frames[depth - 1] EXCEPT !.clean = c] \in Frame
      <3> HIDE DEF c
      <3> QED BY <2>3, <2>4 DEF TypeOK, Frame
    <2>5. frames' \in [1..MaxDepth -> Frame]
      BY <1>0, <2>1, <2>3, <2>6, NewFrameType DEF TypeOK, Result
    <2> QED BY <1>0, <2>1, <2>2, <2>3, <2>5 DEF TypeOK
  <1>10. CASE UNCHANGED vars
    BY <1>10 DEF vars, TypeOK
  <1>11. CASE Crashed
    BY <1>11 DEF Crashed, vars, TypeOK
  <1> QED BY <1>1, <1>2, <1>3, <1>4, <1>5, <1>6, <1>7, <1>8, <1>9, <1>10, <1>11 DEF Next

(* A step of the running frame keeps the views of the frames below it, for *)
(* which only errno at the interrupt counts.                               *)
LEMMA BecomeView ==
  ASSUME TypeOK, ViewInv, CopyInv, PlainInv, NEW f \in Frame, Become(f),
         f.saved = Top.saved,
         f.clean => errno' = View(f),
         f.wanted # Unspecified => f.backup = f.wanted,
         Plain(f)
  PROVE  ViewInv' /\ CopyInv' /\ PlainInv'
  <1>1. /\ depth' = depth /\ depth \in 1..MaxDepth
        /\ frames'[depth] = f /\ frames[depth] = Top
        /\ \A i \in 1..MaxDepth : i # depth => frames'[i] = frames[i]
    BY BecomeFrame DEF TypeOK, Top
  <1>2. frames'[depth'].clean => errno' = View(frames'[depth'])
    BY <1>1
  <1>3. ASSUME NEW i \in 1..MaxDepth, i < depth', frames'[i].clean
        PROVE  frames'[i + 1].saved = View(frames'[i])
    <2>1. frames'[i] = frames[i] /\ i < depth
      BY <1>1, <1>3
    <2>2. i + 1 \in 1..MaxDepth
      BY <1>1, <2>1, ErrnoAssumption
    <2>3. frames'[i + 1].saved = frames[i + 1].saved
      BY <1>1, <2>2
    <2> QED BY <1>3, <2>1, <2>3 DEF ViewInv
  <1>4. PlainInv'
    BY <1>1 DEF PlainInv, Plain
  <1> QED BY <1>1, <1>2, <1>3, <1>4 DEF ViewInv, CopyInv, View

LEMMA StepInv == Inv /\ [Next]_vars => Inv'
  <1> SUFFICES ASSUME Inv, [Next]_vars PROVE ViewInv' /\ CopyInv' /\ PlainInv'
    BY StepType DEF Inv
  <1>0. /\ TypeOK /\ ViewInv /\ CopyInv /\ PlainInv /\ Plain(Top)
        /\ Top \in Frame /\ Top = frames[depth]
        /\ errno \in Result /\ depth \in 1..MaxDepth
        /\ Top.clean => errno = View(Top)
        /\ Top.wanted # Unspecified => Top.backup = Top.wanted
    BY DEF Inv, TypeOK, Top, ViewInv, CopyInv, PlainInv
  <1>1. CASE SysCall
    <2>1. PICK r \in Result : Become([Top EXCEPT !.pc = "returned", !.then = After(Top.pc),
                                        !.ret = r, !.msg = NoMessage])
      BY <1>1 DEF SysCall
    <2> DEFINE f == [Top EXCEPT !.pc = "returned", !.then = After(Top.pc),
                                !.ret = r, !.msg = NoMessage]
    <2>2. After(Top.pc) \in Resume
      BY DEF After, Resume, Writes
    <2>3. f \in Frame /\ f.saved = Top.saved /\ f.wanted = Top.wanted
          /\ f.backup = Top.backup /\ f.clean = Top.clean /\ View(f) = Top.last
      BY <1>0, <2>2 DEF Frame, PC, Resume, View
    <2>4. View(Top) = Top.last
      BY <1>1 DEF SysCall, View, Writes
    <2>5. errno' = errno /\ Become(f)
      BY <1>1, <2>1 DEF SysCall
    <2>6. Plain(f)
      <3>1. After(Top.pc) \in {"prefix", "colon", "test"} => Top.pc \in {"prefix", "colon"}
        BY <1>1 DEF SysCall, After, Writes
      <3>2. f.pc = "returned" /\ f.then = After(Top.pc) /\ f.prefixed = Top.prefixed
        BY <1>0, <2>2 DEF Frame
      <3> HIDE DEF f
      <3> QED BY <1>0, <3>1, <3>2 DEF Plain
    <2> HIDE DEF f
    <2> QED BY <1>0, <2>3, <2>4, <2>5, <2>6, BecomeView
  <1>2. CASE ClearErrno
    <2> DEFINE f == [Top EXCEPT !.pc = "zeroed", !.clean = TRUE]
    <2>1. f \in Frame /\ f.saved = Top.saved /\ f.wanted = Top.wanted
          /\ f.backup = Top.backup /\ View(f) = 0 /\ Plain(f)
      BY <1>0 DEF Frame, PC, Resume, View, Plain
    <2>2. errno' = 0 /\ Become(f)
      BY <1>2 DEF ClearErrno
    <2> HIDE DEF f
    <2> QED BY <1>0, <2>1, <2>2, BecomeView
  <1>3. CASE StoreErrno
    <2> DEFINE c == Top.clean \/ Top.ret # 0
               f == [Top EXCEPT !.pc = Top.then, !.then = "idle", !.ret = 0, !.last = Top.ret,
                                !.clean = c]
    <2>0. c \in BOOLEAN
      OBVIOUS
    <2>1. f \in Frame /\ f.saved = Top.saved /\ f.wanted = Top.wanted /\ f.clean = c
          /\ f.backup = Top.backup /\ f.last = Top.ret /\ f.pc = Top.then /\ f.then = "idle"
          /\ f.prefixed = Top.prefixed
      <3> HIDE DEF c
      <3> QED BY <1>0, <2>0 DEF Frame, PC, Resume, Result
    <2>2. Become(f) /\ Top.pc = "zeroed" /\ (Top.ret = 0 => errno' = errno)
          /\ (Top.ret # 0 => errno' = Top.ret)
      BY <1>3 DEF StoreErrno
    <2>3. View(Top) = 0
      BY <2>2 DEF View
    <2>4. c => errno' = Top.ret
      BY <1>0, <2>2, <2>3
    <2> HIDE DEF f, c
    <2>5. f.clean => errno' = View(f)
      BY <1>0, <2>1, <2>4 DEF View, Frame, Resume, Writes
    <2>6. Plain(f)
      BY <1>0, <2>1 DEF Plain, Frame, Resume, Writes
    <2> QED BY <1>0, <2>1, <2>2, <2>5, <2>6, BecomeView
  <1>4. CASE OpenCall
    <2>1. PICK r \in Result : Become([Top EXCEPT !.pc = "opened", !.ret = r])
      BY <1>4 DEF OpenCall
    <2> DEFINE f == [Top EXCEPT !.pc = "opened", !.ret = r]
    <2>2. f \in Frame /\ f.saved = Top.saved /\ f.wanted = Top.wanted
          /\ f.backup = Top.backup /\ f.clean = Top.clean /\ View(f) = Top.last
          /\ f.pc = "opened" /\ f.then = Top.then /\ f.prefixed = Top.prefixed
      BY <1>0 DEF Frame, PC, Resume, View
    <2>3. errno' = errno /\ Become(f) /\ View(Top) = Top.last
      BY <1>4, <2>1 DEF OpenCall, View
    <2> HIDE DEF f
    <2>4. Plain(f)
      BY <1>0, <1>4, <2>2 DEF Plain, OpenCall
    <2> QED BY <1>0, <2>2, <2>3, <2>4, BecomeView
  <1>5. CASE OpenStore
    <2> DEFINE f == [Top EXCEPT !.pc = "idle", !.ret = 0, !.last = Top.ret, !.clean = TRUE]
    <2>1. f \in Frame /\ f.saved = Top.saved /\ f.wanted = Top.wanted
          /\ f.backup = Top.backup /\ View(f) = Top.ret
          /\ f.pc = "idle" /\ f.then = Top.then /\ f.prefixed = Top.prefixed
      BY <1>0 DEF Frame, PC, Resume, View, Result
    <2>2. errno' = Top.ret /\ Become(f)
      BY <1>5 DEF OpenStore
    <2> HIDE DEF f
    <2>3. Plain(f)
      BY <1>0, <1>5, <2>1 DEF Plain, OpenStore
    <2> QED BY <1>0, <2>1, <2>2, <2>3, BecomeView
  <1>6. CASE perror
    <2>1. PICK pc \in {"prefix", "test"} :
            Become([Top EXCEPT !.pc = pc, !.backup = errno, !.prefixed = (pc = "prefix"),
                      !.wanted = IF Top.clean THEN Top.last ELSE Unspecified])
      BY <1>6 DEF perror
    <2> DEFINE f == [Top EXCEPT !.pc = pc, !.backup = errno, !.prefixed = (pc = "prefix"),
                       !.wanted = IF Top.clean THEN Top.last ELSE Unspecified]
    <2>2. f \in Frame /\ f.saved = Top.saved /\ f.backup = errno
          /\ f.wanted = (IF Top.clean THEN Top.last ELSE Unspecified)
          /\ f.clean = Top.clean /\ View(f) = Top.last
          /\ f.pc = pc /\ f.then = Top.then /\ f.last = Top.last
          /\ f.prefixed = (pc = "prefix")
      <3> DEFINE b == (pc = "prefix")
      <3>1. b \in BOOLEAN
        OBVIOUS
      <3> HIDE DEF b
      <3>2. pc # "zeroed" /\ pc \in PC
        BY DEF PC, Resume, Writes
      <3>3. f \in Frame
        BY <1>0, <3>1, <3>2 DEF Frame
      <3> QED BY <1>0, <3>1, <3>2, <3>3 DEF Frame, View
    <2>3. errno' = errno /\ Become(f) /\ View(Top) = Top.last
      BY <1>6, <2>1 DEF perror, View
    <2> HIDE DEF f
    <2>4. f.wanted # Unspecified => f.backup = f.wanted
      BY <1>0, <2>2, <2>3
    <2>5. Plain(f)
      BY <1>0, <1>6, <2>2 DEF Plain, perror
    <2> QED BY <1>0, <2>2, <2>3, <2>4, <2>5, BecomeView
  <1>7. CASE Choose
    <2>0. Message \in {NoMessage, Unknown, Outside} \cup Result
      BY <1>0 DEF Message, Frame
    <2>1. PICK pc \in {"message", "crashed"} :
            Become([Top EXCEPT !.pc = pc, !.backup = 0, !.wanted = Unspecified,
                      !.prefixed = FALSE, !.msg = Message])
      BY <1>7 DEF Choose
    <2> DEFINE f == [Top EXCEPT !.pc = pc, !.backup = 0, !.wanted = Unspecified,
                       !.prefixed = FALSE, !.msg = Message]
    <2>2. f \in Frame /\ f.saved = Top.saved /\ f.wanted = Unspecified
          /\ f.clean = Top.clean /\ View(f) = Top.last /\ f.pc = pc /\ f.then = Top.then
      <3>1. pc # "zeroed" /\ pc \in PC /\ 0 \in Result
        BY DEF PC, Resume, Writes, Result
      <3>2. f \in Frame
        BY <1>0, <2>0, <3>1 DEF Frame
      <3> QED BY <1>0, <3>1, <3>2 DEF Frame, View
    <2>3. errno' = errno /\ Become(f) /\ View(Top) = Top.last
      BY <1>7, <2>1 DEF Choose, View
    <2>4. Plain(f)
      BY <1>0, <1>7, <2>2 DEF Plain, Choose
    <2> HIDE DEF f
    <2> QED BY <1>0, <2>2, <2>3, <2>4, BecomeView
  <1>8. CASE Interrupt
    <2>1. /\ depth' = depth + 1 /\ depth + 1 \in 1..MaxDepth /\ errno' = errno
          /\ frames' = [frames EXCEPT ![depth + 1] = NewFrame(errno)]
      BY <1>0, <1>8, ErrnoAssumption DEF Interrupt
    <2>2. /\ NewFrame(errno).clean /\ NewFrame(errno).saved = errno
          /\ NewFrame(errno).wanted = Unspecified
          /\ View(NewFrame(errno)) = errno
      BY DEF NewFrame, View
    <2>3. /\ frames'[depth + 1] = NewFrame(errno)
          /\ \A i \in 1..MaxDepth : i # depth + 1 => frames'[i] = frames[i]
      BY <1>0, <2>1 DEF TypeOK
    <2>4. ASSUME NEW i \in 1..MaxDepth, i < depth', frames'[i].clean
          PROVE  frames'[i + 1].saved = View(frames'[i])
      <3>1. frames'[i] = frames[i]
        BY <1>0, <2>1, <2>3, <2>4
      <3>2. CASE i = depth
        BY <1>0, <2>2, <2>3, <2>4, <3>1, <3>2
      <3>3. CASE i < depth
        <4>1. i + 1 \in 1..MaxDepth /\ i + 1 # depth + 1
          BY <1>0, <3>3, ErrnoAssumption
        <4> QED BY <1>0, <2>3, <2>4, <3>1, <3>3, <4>1 DEF ViewInv
      <3> QED BY <1>0, <2>1, <2>4, <3>2, <3>3
    <2>5. PlainInv'
      <3>1. Plain(NewFrame(errno))
        BY DEF Plain, NewFrame
      <3>2. \A i \in 1..MaxDepth : Plain(frames'[i])
        BY <1>0, <2>3, <3>1 DEF PlainInv
      <3> QED BY <3>2 DEF PlainInv, Plain
    <2> QED BY <1>0, <2>1, <2>2, <2>3, <2>4, <2>5 DEF ViewInv, CopyInv, View
  <1>9. CASE HandlerReturn
    <2> DEFINE d == depth - 1
               c == frames[d].clean /\ errno' = Top.saved
               g == [frames[d] EXCEPT !.clean = c]
    <2>1. /\ depth' = d /\ d \in 1..MaxDepth /\ d < depth /\ d # depth
          /\ frames' = [frames EXCEPT ![depth] = NewFrame(0),
                          ![d].clean = @ /\ errno' = Top.saved]
      BY <1>0, <1>9, ErrnoAssumption DEF HandlerReturn
    <2>2. c \in BOOLEAN /\ frames[d] \in Frame
      BY <1>0, <2>1 DEF TypeOK
    <2>3. /\ frames'[d] = g /\ frames'[depth] = NewFrame(0)
          /\ \A i \in 1..MaxDepth : i # depth /\ i # d => frames'[i] = frames[i]
      BY <1>0, <2>1 DEF TypeOK
    <2>4. /\ g.clean = c /\ g.saved = frames[d].saved /\ g.wanted = frames[d].wanted
          /\ g.backup = frames[d].backup /\ View(g) = View(frames[d]) /\ Plain(g)
      <3>1. Plain(frames[d])
        BY <1>0, <2>1 DEF PlainInv
      <3> HIDE DEF c
      <3> QED BY <2>2, <3>1 DEF Frame, View, Plain
    <2>5. NewFrame(0).wanted = Unspecified
      BY DEF NewFrame
    <2>6. frames[d].clean => Top.saved = View(frames[d])
      BY <1>0, <2>1 DEF ViewInv
    <2>7. frames'[depth'].clean => errno' = View(frames'[depth'])
      <3> HIDE DEF g
      <3> QED BY <2>1, <2>3, <2>4, <2>6
    <2>8. ASSUME NEW i \in 1..MaxDepth, i < depth', frames'[i].clean
          PROVE  frames'[i + 1].saved = View(frames'[i])
      <3> HIDE DEF g
      <3>1. i < d /\ i # depth /\ i # d /\ i + 1 \in 1..MaxDepth /\ i + 1 # depth
        BY <1>0, <2>1, <2>8, ErrnoAssumption
      <3>2. frames'[i] = frames[i] /\ frames'[i + 1].saved = frames[i + 1].saved
        BY <2>3, <2>4, <3>1
      <3>3. i < depth
        BY <1>0, <2>1, <3>1
      <3> QED BY <1>0, <2>8, <3>2, <3>3 DEF ViewInv
    <2>9. CopyInv'
      <3> HIDE DEF g
      <3> QED BY <1>0, <2>1, <2>3, <2>4, <2>5 DEF CopyInv
    <2>10. PlainInv'
      <3>1. Plain(NewFrame(0))
        BY DEF Plain, NewFrame
      <3> HIDE DEF g
      <3>2. \A i \in 1..MaxDepth : Plain(frames'[i])
        BY <1>0, <2>3, <2>4, <3>1 DEF PlainInv
      <3> QED BY <3>2 DEF PlainInv, Plain
    <2> HIDE DEF d, g, c
    <2> QED BY <2>7, <2>8, <2>9, <2>10 DEF ViewInv, View
  <1>10. CASE UNCHANGED vars
    BY <1>0, <1>10 DEF vars, ViewInv, CopyInv, View, PlainInv, Plain
  <1>11. CASE Crashed
    BY <1>0, <1>11 DEF Crashed, vars, ViewInv, CopyInv, View, PlainInv, Plain
  <1> QED BY <1>1, <1>2, <1>3, <1>4, <1>5, <1>6, <1>7, <1>8, <1>9, <1>10, <1>11 DEF Next

LEMMA InitInv == Init => Inv
  <1> SUFFICES ASSUME Init PROVE Inv
    OBVIOUS
  <1>1. NewFrame(0) \in Frame /\ View(NewFrame(0)) = 0 /\ NewFrame(0).wanted = Unspecified
    BY NewFrameType DEF Result, NewFrame, View
  <1>2. /\ errno = 0 /\ depth = 1 /\ 1 \in 1..MaxDepth
        /\ frames = [i \in 1..MaxDepth |-> NewFrame(0)]
    BY ErrnoAssumption DEF Init
  <1>3. ViewInv
    BY <1>1, <1>2 DEF ViewInv
  <1>4. PlainInv
    BY <1>2 DEF PlainInv, Plain, NewFrame
  <1> QED BY <1>1, <1>2, <1>3, <1>4 DEF Inv, TypeOK, CopyInv, Result

LEMMA Invariance == Spec => []Inv
  <1>1. Init => Inv
    BY InitInv
  <1>2. Inv /\ [Next]_vars => Inv'
    BY StepInv
  <1> QED BY <1>1, <1>2, PTL DEF Spec

(* The values of errno and of the frames are those a wrapper or a handler  *)
(* can leave (libmini.c, WRAPPER_RETval).                                  *)
THEOREM ErrnoTypeCorrect == Spec => []TypeOK
  BY Invariance, PTL DEF Inv

(* A program whose handlers put errno back finds the outcome of its own    *)
(* last call in errno, however deeply handlers nest (WRAPPER_RETval).      *)
THEOREM ErrnoCorrect == Spec => []ErrnoIsMine
  <1>1. Inv => ErrnoIsMine
    BY DEF Inv, ViewInv, View, ErrnoIsMine, Top
  <1> QED BY <1>1, Invariance, PTL

(* Only Choose takes a frame from the test of line 350 to the message. *)
LEMMA ChooseStep ==
  ASSUME Inv, [Next]_vars, Chooses
  PROVE  frames'[depth].msg = Message
  <1>0. Top \in Frame /\ depth \in 1..MaxDepth /\ Top.pc = "test" /\ Top = frames[depth]
        /\ frames \in [1..MaxDepth -> Frame]
    BY DEF Inv, TypeOK, Chooses, Top
  <1>1. CASE Choose
    <2>1. PICK pc \in {"message", "crashed"} :
            frames' = [frames EXCEPT ![depth] =
              [Top EXCEPT !.pc = pc, !.backup = 0, !.wanted = Unspecified,
                 !.prefixed = FALSE, !.msg = Message]]
      BY <1>1 DEF Choose, Become
    <2> QED BY <1>0, <2>1 DEF Frame
  <1>2. CASE Interrupt
    <2>1. frames'[depth] = frames[depth]
      BY <1>0, <1>2 DEF Interrupt
    <2> QED BY <1>0, <2>1 DEF Chooses
  <1>3. CASE UNCHANGED vars
    BY <1>0, <1>3 DEF vars, Chooses
  <1>4. ~(SysCall \/ ClearErrno \/ StoreErrno \/ OpenCall \/ OpenStore \/ perror \/ HandlerReturn
          \/ Crashed)
    BY <1>0 DEF SysCall, ClearErrno, StoreErrno, OpenCall, OpenStore, perror, HandlerReturn, Writes,
                Crashed
  <1> QED BY <1>1, <1>2, <1>3, <1>4 DEF Next

(* Without a prefix perror prints the message of the failure it was called *)
(* for, or Unknown when errmsg has none; with one it does so when its own  *)
(* write of the colon ended on the same side of the table's end, and       *)
(* otherwise says Unknown or reads outside the table.                      *)
THEOREM PerrorCorrect == Spec => PerrorNames
  <1>1. ASSUME Inv, [Next]_vars PROVE PerrorStep
    <2> DEFINE f == frames[depth]
               right == IF InTable(f.wanted) THEN f.wanted ELSE Unknown
               wrong == IF InTable(f.wanted) THEN Unknown ELSE Outside
    <2> SUFFICES ASSUME Chooses, f.clean, f.wanted # Unspecified
                 PROVE  /\ (~f.prefixed \/ InTable(f.last) = InTable(f.wanted)) =>
                             frames'[depth].msg = right
                        /\ frames'[depth].msg \in {right, wrong}
      BY DEF PerrorStep
    <2>1. f \in Frame /\ errno = f.last /\ f.backup = f.wanted /\ f.pc = "test" /\ f = Top
      BY <1>1 DEF Inv, TypeOK, ViewInv, CopyInv, View, Chooses, Top
    <2>2. ~f.prefixed => f.last = f.wanted
      BY <1>1, <2>1 DEF Inv, TypeOK, PlainInv, Plain
    <2>3. frames'[depth].msg = Message
      BY <1>1, ChooseStep
    <2>4. Message = IF ~InTable(f.last) THEN Unknown
                    ELSE IF InTable(f.wanted) THEN f.wanted ELSE Outside
      BY <2>1 DEF Message
    <2> HIDE DEF f
    <2>5. InTable(f.last) \in BOOLEAN /\ InTable(f.wanted) \in BOOLEAN
      BY DEF InTable
    <2> QED BY <2>2, <2>3, <2>4, <2>5
  <1>2. Inv /\ [Next]_vars => [PerrorStep]_vars
    BY <1>1
  <1> QED BY <1>2, Invariance, PTL DEF Spec, PerrorNames

=============================================================================
