---------------------------- MODULE LoggerProofs ----------------------------
(***************************************************************************)
(* The logger of hw2, for any number of threads, names, descriptors and    *)
(* calls.                                                                  *)
(***************************************************************************)
EXTENDS Logger, FiniteSetTheorems, WellFoundedInduction, TLAPS

(* The threads in a call, and those of them whose original has returned. *)
InCall == {t \in Thread : th[t].pc # "idle"}
IsPast(c) ==
  c.pc \in {"after", "dprintf"} \/ (c.pc \in {"stat", "realpath"} /\ c.fn \notin ResolveFirst)
Past == {t \in Thread : IsPast(th[t])}

(* Files are numbered in the order they are made, one for each call whose  *)
(* original has returned at most: there is always a number left for a      *)
(* program that runs.                                                      *)
CountInv ==
  /\ Path # {}
  /\ IsFiniteSet(InCall)
  /\ phase = "ended" => InCall = {}
  /\ phase # "ended" => /\ calls = done + Cardinality(InCall)
                        /\ \A f \in Used : f <= 2 + done + Cardinality(Past)

(* Nothing is logged before the program runs, and its output is no file    *)
(* that a name leads to.                                                   *)
OutInv ==
  /\ phase = "launcher" => done = 0 /\ lines = 0 /\ stray = {} /\ InCall = {} /\ out_fd = -1
  /\ \A p \in Path : dir[p] # OutFile
  /\ LinesInOutput

(* The arguments of a call. *)
ArgInv(c) ==
  /\ c.fn \in ByName => c.p \in Path
  /\ c.fn = "rename" => c.q \in Path
  /\ c.fn # "rename" => c.q = ""
  /\ c.fn \in ByFd => c.fd \in FD

(* What get_abs_path of a descriptor returns when nothing comes between    *)
(* its steps, and what a lookup returns.                                   *)
Shown(fd) ==
  IF fdtab[fd] = None THEN ""
  ELSE IF NameOf(fdtab[fd]) = "deleted" THEN "(null)" ELSE NameOf(fdtab[fd])
Resolve(c) == IF c.fn \in ByName THEN Realpath(c.p) ELSE Shown(c.fd)

(* What a call has found out, as long as no other thread has moved the     *)
(* file it is about.                                                       *)
CallInv(c) ==
  /\ c.pc # "idle" => ArgInv(c)
  /\ c.pc = "before" => c.fn \in ResolveFirst
  /\ c.pc \in {"stat", "realpath"} => c.fn \in ByFd
  /\ c.pc \notin {"idle", "dprintf"} => c.second = ""
  /\ (c.pc = "origin" /\ c.fn \notin ResolveFirst) => c.path = ""
  /\ (c.pc = "origin" /\ c.fn \in ResolveFirst /\ c.alone) => c.path = Resolve(c)
  /\ c.pc = "after" => c.fn \in ResolveLast
  /\ (c.pc = "after" /\ c.ok /\ c.alone /\ c.fn \in ByName) =>
       /\ c.subject = c.p
       /\ c.fn = "rename" => c.path = c.p /\ dir[c.q] # None
       /\ c.fn # "rename" => dir[c.p] # None
  /\ (IsPast(c) /\ c.pc # "dprintf" /\ c.ok /\ c.alone /\ c.fn \in ByFd) =>
       fdtab[c.fd] # None /\ c.subject = NameOf(fdtab[c.fd])
  /\ (c.pc \in {"stat", "realpath"} /\ c.alone) =>
       fdtab[c.fd] # None /\ c.path = NameOf(fdtab[c.fd])
  /\ (c.pc = "dprintf" /\ c.ok /\ c.alone /\ c.subject # "deleted") =>
       c.path = c.subject /\ c.second = c.q

ThreadInv == \A t \in Thread : CallInv(th[t])

Inv == TypeOK /\ CountInv /\ OutInv /\ ThreadInv

Record == [pc : Step, fn : Function, p : Path \cup {""}, q : Path \cup {""},
           fd : FD \cup {None}, path : Text, second : Text,
           subject : Text, ok : BOOLEAN, alone : BOOLEAN]

-----------------------------------------------------------------------------
(* Numbers of files. *)

LEMMA LeastNat ==
  ASSUME NEW T \in SUBSET Nat, T # {}
  PROVE  \E x \in T : \A y \in T : x <= y
  <1> DEFINE R == OpToRel(<, Nat)
  <1>1. R = {ss \in Nat \X Nat : ss[1] < ss[2]}
    BY DEF OpToRel
  <1>2. IsWellFoundedOn(R, Nat)
    BY NatLessThanWellFounded
  <1>3. \A x, y \in Nat : <<y, x>> \in R <=> y < x
    BY <1>1
  <1> HIDE DEF R
  <1>4. PICK x \in T : \A y \in T : ~(<<y, x>> \in R)
    BY <1>2, WFMin
  <1>5. \A y \in T : ~(y < x)
    BY <1>3, <1>4
  <1> QED BY <1>4, <1>5

LEMMA FileFacts ==
  /\ MaxCalls \in Nat /\ Cardinality(Path) \in Nat
  /\ OutFile = 1 /\ None = 0 /\ None \notin File /\ OutFile \in File
  /\ Path # {} => Cardinality(Path) >= 1
  <1>1. MaxCalls \in Nat /\ Cardinality(Path) \in Nat
    BY LoggerAssumption, FS_CardinalityType
  <1>2. Path # {} => Cardinality(Path) # 0
    BY LoggerAssumption, FS_EmptySet
  <1> QED BY <1>1, <1>2 DEF File, OutFile, None

LEMMA PastFinite ==
  ASSUME IsFiniteSet(InCall)
  PROVE  /\ IsFiniteSet(Past) /\ Cardinality(Past) \in Nat /\ Cardinality(InCall) \in Nat
         /\ Cardinality(Past) <= Cardinality(InCall)
  <1>1. Past \in SUBSET InCall
    BY DEF Past, IsPast, InCall
  <1> QED BY <1>1, FS_Subset, FS_CardinalityType

LEMMA UsedFiles == TypeOK => \A f \in Used : f \in File \cup {None}
  <1> SUFFICES ASSUME TypeOK, NEW f \in Used PROVE f \in File \cup {None}
    OBVIOUS
  <1>1. /\ dir \in [Path -> File \cup {None}] /\ fdtab \in [FD -> File \cup {None}]
        /\ stray \subseteq File /\ OutFile \in File
    BY FileFacts DEF TypeOK
  <1> QED BY <1>1 DEF Used

(* A call that is about to make a file finds a number for it. *)
LEMMA FreshFile ==
  ASSUME TypeOK, CountInv, NEW t \in Thread, th[t].pc = "origin"
  PROVE  /\ Fresh \in File \ Used
         /\ Fresh <= 3 + done + Cardinality(Past)
  <1>0. phase # "ended"
    BY DEF CountInv, InCall
  <1>1. /\ Cardinality(Past) \in Nat /\ Cardinality(InCall) \in Nat
        /\ IsFiniteSet(InCall) /\ IsFiniteSet(Past)
    BY PastFinite DEF CountInv
  <1>2. Cardinality(Past) + 1 <= Cardinality(InCall)
    <2>1. t \notin Past /\ Past \cup {t} \in SUBSET InCall
      BY DEF Past, IsPast, InCall
    <2>2. Cardinality(Past \cup {t}) = Cardinality(Past) + 1
      BY <1>1, <2>1, FS_AddElement
    <2>3. Cardinality(Past \cup {t}) <= Cardinality(InCall)
      BY <1>1, <2>1, FS_Subset
    <2> QED BY <2>2, <2>3
  <1> DEFINE m == 3 + done + Cardinality(Past)
  <1>3. done \in Nat /\ calls \in Nat /\ calls <= MaxCalls /\ calls = done + Cardinality(InCall)
    <2>1. calls \in 0..MaxCalls /\ done \in 0..calls
      BY DEF TypeOK
    <2>2. MaxCalls \in Nat
      BY FileFacts
    <2>3. calls = done + Cardinality(InCall)
      BY <1>0 DEF CountInv
    <2> QED BY <2>1, <2>2, <2>3
  <1>4. m \in File
    BY <1>1, <1>2, <1>3, FileFacts DEF File, CountInv
  <1>5. m \notin Used
    <2> SUFFICES ASSUME m \in Used PROVE FALSE
      OBVIOUS
    <2>1. m <= 2 + done + Cardinality(Past)
      BY <1>0 DEF CountInv
    <2> QED BY <1>1, <1>3, <2>1
  <1> HIDE DEF m
  <1>6. File \ Used \in SUBSET Nat
    BY DEF File
  <1>7. \E f \in File \ Used : \A g \in File \ Used : f <= g
    BY <1>4, <1>5, <1>6, LeastNat
  <1>8. Fresh \in File \ Used /\ \A g \in File \ Used : Fresh <= g
    BY <1>7 DEF Fresh
  <1> QED BY <1>4, <1>5, <1>8 DEF m

-----------------------------------------------------------------------------
(* Names and calls. *)

LEMMA NameType == \A f : NameOf(f) \in Path \cup {"output", "deleted"}
  <1> SUFFICES ASSUME NEW f PROVE NameOf(f) \in Path \cup {"output", "deleted"}
    OBVIOUS
  <1>1. CASE \E p \in Path : dir[p] = f
    <2>1. (CHOOSE p \in Path : dir[p] = f) \in Path
      BY <1>1
    <2> QED BY <2>1 DEF NameOf, NameIn
  <1>2. CASE ~\E p \in Path : dir[p] = f
    BY <1>2 DEF NameOf, NameIn
  <1> QED BY <1>1, <1>2

LEMMA LookupType ==
  ASSUME NEW c \in Record, ArgInv(c)
  PROVE  Resolve(c) \in Text /\ Subject(c) \in Text
  <1>1. Resolve(c) \in Text
    <2>1. CASE c.fn \in ByName
      <3>1. c.p \in Path
        BY <2>1 DEF ArgInv
      <3> QED BY <2>1, <3>1 DEF Resolve, Realpath, Text
    <2>2. CASE c.fn \notin ByName
      <3>1. Shown(c.fd) \in Text
        BY NameType DEF Shown, Text
      <3> QED BY <2>2, <3>1 DEF Resolve
    <2> QED BY <2>1, <2>2
  <1>2. Subject(c) \in Text
    <2>1. CASE c.fn \in ByName
      <3>1. Subject(c) = c.p
        BY <2>1 DEF Subject, ByName, ByFd
      <3> QED BY <2>1, <3>1 DEF ArgInv, Text
    <2>2. CASE c.fn \in ByFd
      <3>1. c.fn \notin ByName
        BY <2>2 DEF ByFd, ByName
      <3>2. Subject(c) = IF fdtab[c.fd] = None THEN "" ELSE NameOf(fdtab[c.fd])
        BY <2>2, <3>1 DEF Subject
      <3> QED BY <3>2, NameType DEF Text
    <2>3. CASE c.fn \notin ByName /\ c.fn \notin ByFd
      <3>1. Subject(c) = ""
        BY <2>3 DEF Subject
      <3> QED BY <3>1 DEF Text
    <2> QED BY <2>1, <2>2, <2>3
  <1> QED BY <1>1, <1>2

(* A thread goes on; the others are where they were. *)
LEMMA GoesOn ==
  ASSUME TypeOK, NEW t \in Thread, NEW r \in Record, Goes(t, r)
  PROVE  /\ th' \in [Thread -> Record]
         /\ th'[t] = r
         /\ \A u \in Thread : u # t => th'[u] = th[u]
  BY DEF TypeOK, Record, Goes

(* A call knows what it knew, as long as the file system is the same. *)
LEMMA CallSame ==
  ASSUME NEW u \in Thread, CallInv(th[u]), th'[u] = th[u], UNCHANGED <<dir, fdtab>>
  PROVE  CallInv(th[u])'
  <1>2. NameOf(fdtab[th[u].fd])' = NameOf(fdtab[th[u].fd])
    BY DEF NameOf, NameIn
  <1>3. Resolve(th[u])' = Resolve(th[u])
    BY <1>2 DEF Resolve, Realpath, Shown
  <1>4. ArgInv(th[u]) => ArgInv(th[u])'
    BY DEF ArgInv
  <1>5. fdtab' = fdtab /\ dir' = dir
    OBVIOUS
  <1>6. (/\ th[u].pc # "idle" => ArgInv(th[u])
         /\ th[u].pc = "before" => th[u].fn \in ResolveFirst
         /\ th[u].pc \in {"stat", "realpath"} => th[u].fn \in ByFd
         /\ th[u].pc \notin {"idle", "dprintf"} => th[u].second = ""
         /\ (th[u].pc = "origin" /\ th[u].fn \notin ResolveFirst) => th[u].path = ""
         /\ (th[u].pc = "origin" /\ th[u].fn \in ResolveFirst /\ th[u].alone) =>
              th[u].path = Resolve(th[u])
         /\ th[u].pc = "after" => th[u].fn \in ResolveLast)'
    BY <1>3, <1>4 DEF CallInv
  <1>7. ((th[u].pc = "after" /\ th[u].ok /\ th[u].alone /\ th[u].fn \in ByName) =>
           /\ th[u].subject = th[u].p
           /\ th[u].fn = "rename" => th[u].path = th[u].p /\ dir[th[u].q] # None
           /\ th[u].fn # "rename" => dir[th[u].p] # None)'
    BY <1>5 DEF CallInv
  <1>8. ((IsPast(th[u]) /\ th[u].pc # "dprintf" /\ th[u].ok /\ th[u].alone /\ th[u].fn \in ByFd) =>
           fdtab[th[u].fd] # None /\ th[u].subject = NameOf(fdtab[th[u].fd]))'
    BY <1>2, <1>5 DEF CallInv, IsPast
  <1>9. ((th[u].pc \in {"stat", "realpath"} /\ th[u].alone) =>
           fdtab[th[u].fd] # None /\ th[u].path = NameOf(fdtab[th[u].fd]))'
    BY <1>2, <1>5 DEF CallInv
  <1>10. ((th[u].pc = "dprintf" /\ th[u].ok /\ th[u].alone /\ th[u].subject # "deleted") =>
            th[u].path = th[u].subject /\ th[u].second = th[u].q)'
    BY DEF CallInv
  <1> QED BY <1>6, <1>7, <1>8, <1>9, <1>10 DEF CallInv

-----------------------------------------------------------------------------
(* The steps around the original: the file system is not touched. *)

(* The launcher. *)
LEMMA LauncherStep == Inv /\ (Usage \/ Launch \/ Exit) => Inv'
  <1> SUFFICES ASSUME TypeOK, CountInv, OutInv, ThreadInv, Usage \/ Launch \/ Exit PROVE Inv'
    BY DEF Inv
  <1>1. /\ UNCHANGED <<dir, th, calls, done, lines, stray>>
        /\ phase' \in {"running", "ended"} /\ phase # "ended"
        /\ InCall' = InCall /\ Past' = Past /\ InCall = {}
    <2>1. /\ UNCHANGED <<dir, th, calls, done, lines, stray>>
          /\ phase' \in {"running", "ended"} /\ phase \in {"launcher", "running"}
          /\ phase = "running" => \A t \in Thread : th[t].pc = "idle"
      BY DEF Usage, Launch, Exit, fsVars, logVars
    <2> QED BY <2>1 DEF InCall, Past, IsPast, OutInv
  <1>2. CASE UNCHANGED <<out_fd, fdtab>>
    <2>1. TypeOK'
      BY <1>1, <1>2 DEF TypeOK
    <2>2. CountInv'
      BY <1>1, <1>2 DEF CountInv, Used
    <2>3. OutInv'
      BY <1>1, <1>2 DEF OutInv, LinesInOutput
    <2>4. ThreadInv'
      BY <1>1, <1>2, CallSame DEF ThreadInv
    <2> QED BY <2>1, <2>2, <2>3, <2>4 DEF Inv
  <1>3. CASE Launch /\ out_fd' # -1
    <2>1. /\ phase = "launcher" /\ out_fd' = OutFd
          /\ fdtab' = [fdtab EXCEPT ![OutFd] = OutFile]
      BY <1>3 DEF Launch
    <2>2. OutFd \in FD /\ OutFile \in File /\ OutFile = 1
      BY LoggerAssumption, FileFacts
    <2>3. /\ fdtab' \in [FD -> File \cup {None}]
          /\ \A f \in FD : fdtab'[f] = fdtab[f] \/ fdtab'[f] = OutFile
      BY <2>1, <2>2 DEF TypeOK
    <2>4. TypeOK'
      BY <1>1, <2>1, <2>2, <2>3 DEF TypeOK
    <2>5. CountInv'
      <3>1. Used' \subseteq Used
        BY <1>1, <2>3 DEF Used
      <3> QED BY <1>1, <3>1 DEF CountInv
    <2>6. OutInv'
      BY <1>1, <2>1 DEF OutInv, LinesInOutput
    <2>7. ThreadInv'
      <3> SUFFICES ASSUME NEW u \in Thread PROVE CallInv(th[u])'
        BY DEF ThreadInv
      <3>1. th'[u] = th[u] /\ th[u].pc = "idle"
        BY <1>1, <2>1 DEF OutInv, InCall
      <3> QED BY <3>1 DEF CallInv, IsPast
    <2> QED BY <2>4, <2>5, <2>6, <2>7 DEF Inv
  <1>4. \/ UNCHANGED <<out_fd, fdtab>>
        \/ Launch /\ out_fd' # -1
    <2>1. CASE Usage \/ Exit
      BY <2>1 DEF Usage, Exit, fsVars
    <2>2. CASE Launch
      <3>1. CASE out_fd' = -1 /\ UNCHANGED fdtab
        <4>1. out_fd = -1
          BY <2>2 DEF Launch, OutInv
        <4> QED BY <3>1, <4>1
      <3>2. CASE out_fd' = OutFd
        <4>1. OutFd \in Nat
          BY LoggerAssumption
        <4>2. OutFd # -1
          BY <4>1
        <4> QED BY <2>2, <3>2, <4>2
      <3> QED BY <2>2, <3>1, <3>2 DEF Launch
    <2> QED BY <2>1, <2>2
  <1> QED BY <1>2, <1>3, <1>4

(* A call starts with nothing resolved. *)
LEMMA BeginRecord ==
  ASSUME NEW t \in Thread, NEW fn \in Function, NEW p \in Path \cup {""}, NEW q \in Path \cup {""},
         NEW f \in FD \cup {None}, Begin(t, fn, p, q, f),
         fn \in ByName => p \in Path, fn = "rename" <=> q # "", fn \in ByFd => f \in FD
  PROVE  \E r \in Record :
           /\ Goes(t, r) /\ ArgInv(r)
           /\ r.fn \in ResolveFirst => r.pc = "before"
           /\ r.fn \notin ResolveFirst => r.pc = "origin"
           /\ r.path = "" /\ r.second = ""
  <1> DEFINE r == [Idle EXCEPT !.pc = IF fn \in ResolveFirst THEN "before" ELSE "origin",
                               !.fn = fn, !.p = p, !.q = q, !.fd = f]
  <1>1. /\ r.fn = fn /\ r.p = p /\ r.q = q /\ r.fd = f /\ r.path = "" /\ r.second = ""
        /\ fn \in ResolveFirst => r.pc = "before"
        /\ fn \notin ResolveFirst => r.pc = "origin"
    BY DEF Idle
  <1>2. r \in Record
    BY DEF Idle, Record, Step, Text
  <1>3. Goes(t, r)
    BY DEF Begin
  <1> HIDE DEF r
  <1>4. ArgInv(r)
    BY <1>1 DEF ArgInv
  <1> QED BY <1>1, <1>2, <1>3, <1>4

LEMMA CallStep ==
  ASSUME Inv, NEW t \in Thread, Call(t)
  PROVE  Inv'
  <1>0. TypeOK /\ CountInv /\ OutInv /\ ThreadInv
    BY DEF Inv
  <1>1. /\ phase = "running" /\ th[t].pc = "idle" /\ calls < MaxCalls /\ calls' = calls + 1
        /\ UNCHANGED <<phase, out_fd, dir, fdtab, done, lines, stray>>
    BY DEF Call, fsVars, logVars
  <1>2. PICK r \in Record :
           /\ Goes(t, r) /\ ArgInv(r)
           /\ r.fn \in ResolveFirst => r.pc = "before"
           /\ r.fn \notin ResolveFirst => r.pc = "origin"
           /\ r.path = "" /\ r.second = ""
    <2> USE LoggerAssumption DEF Function, ByName, ByFd
    <2>1. CASE \E fn \in ByName \ {"rename"}, p \in Path : Begin(t, fn, p, "", None)
      BY <2>1, BeginRecord
    <2>2. CASE \E p, q \in Path : Begin(t, "rename", p, q, None)
      BY <2>2, BeginRecord
    <2>3. CASE \E fn \in ByFd, f \in FD : Begin(t, fn, "", "", f)
      BY <2>3, BeginRecord
    <2>4. CASE Begin(t, "tmpfile", "", "", None)
      BY <2>4, BeginRecord
    <2> QED BY <2>1, <2>2, <2>3, <2>4 DEF Call
  <1>3. th' \in [Thread -> Record] /\ th'[t] = r /\ \A u \in Thread : u # t => th'[u] = th[u]
    BY <1>0, <1>2, GoesOn
  <1>4. InCall' = InCall \cup {t} /\ t \notin InCall /\ Past' = Past
    BY <1>1, <1>2, <1>3 DEF InCall, Past, IsPast
  <1>5. calls \in 0..MaxCalls /\ done \in 0..calls /\ lines \in 0..done /\ MaxCalls \in Nat
    BY <1>0, LoggerAssumption DEF TypeOK
  <1>6. TypeOK'
    <2>1. calls' \in 0..MaxCalls /\ done' \in 0..calls' /\ lines' \in 0..done'
      BY <1>1, <1>5
    <2> QED BY <1>0, <1>1, <1>3, <2>1 DEF TypeOK, Record
  <1>7. CountInv'
    <2>1. IsFiniteSet(InCall') /\ Cardinality(InCall') = Cardinality(InCall) + 1
      BY <1>0, <1>4, FS_AddElement DEF CountInv
    <2>2. Cardinality(InCall) \in Nat
      BY <1>0, FS_CardinalityType DEF CountInv
    <2>3. Used' = Used
      BY <1>1 DEF Used
    <2>4. calls' = done' + Cardinality(InCall')
      BY <1>0, <1>1, <1>5, <2>1, <2>2 DEF CountInv
    <2> QED BY <1>0, <1>1, <1>4, <2>1, <2>3, <2>4 DEF CountInv
  <1>8. OutInv'
    BY <1>0, <1>1 DEF OutInv, LinesInOutput
  <1>9. ThreadInv'
    <2> SUFFICES ASSUME NEW u \in Thread PROVE CallInv(th[u])'
      BY DEF ThreadInv
    <2>1. CASE u # t
      BY <1>0, <1>1, <1>3, <2>1, CallSame DEF ThreadInv
    <2>2. CASE u = t
      <3>1. ArgInv(th[t])'
        BY <1>2, <1>3 DEF ArgInv
      <3>2. th'[t].pc \in {"before", "origin"}
        BY <1>2, <1>3
      <3> QED BY <1>2, <1>3, <2>2, <3>1, <3>2 DEF CallInv, IsPast
    <2> QED BY <2>1, <2>2
  <1> QED BY <1>6, <1>7, <1>8, <1>9 DEF Inv

(* A thread that goes on within its call, and nothing else changes. *)
LEMMA WithinCall ==
  ASSUME Inv, NEW t \in Thread, NEW r \in Record, Goes(t, r),
         UNCHANGED <<phase, out_fd, dir, fdtab, calls, done, lines, stray>>,
         th[t].pc # "idle", r.pc # "idle",
         IsPast(th[t]) <=> IsPast(r),
         CallInv(th[t])'
  PROVE  Inv'
  <1>0. TypeOK /\ CountInv /\ OutInv /\ ThreadInv
    BY DEF Inv
  <1>1. th' \in [Thread -> Record] /\ th'[t] = r /\ \A u \in Thread : u # t => th'[u] = th[u]
    BY <1>0, GoesOn
  <1>2. InCall' = InCall /\ Past' = Past /\ Used' = Used
    BY <1>1 DEF InCall, Past, IsPast, Used
  <1>3. TypeOK'
    BY <1>0, <1>1 DEF TypeOK, Record
  <1>4. CountInv'
    BY <1>0, <1>2 DEF CountInv
  <1>5. OutInv'
    BY <1>0, <1>2 DEF OutInv, LinesInOutput
  <1>6. ThreadInv'
    <2> SUFFICES ASSUME NEW u \in Thread, u # t PROVE CallInv(th[u])'
      BY DEF ThreadInv
    <2> QED BY <1>0, <1>1, CallSame DEF ThreadInv
  <1> QED BY <1>3, <1>4, <1>5, <1>6 DEF Inv

(* A name that the kernel shows is resolved to itself, unless the file has *)
(* none.                                                                   *)
LEMMA RealpathOfName ==
  ASSUME NEW f, f # None
  PROVE  Realpath(NameOf(f)) = IF NameOf(f) = "deleted" THEN "(null)" ELSE NameOf(f)
  <1>1. "deleted" \notin Path /\ "output" \notin Path
    BY LoggerAssumption
  <1>2. CASE f = OutFile
    BY <1>2 DEF NameOf, NameIn, Realpath
  <1>3. CASE f # OutFile /\ \E p \in Path : dir[p] = f
    <2> DEFINE p == CHOOSE p \in Path : dir[p] = f
    <2>1. p \in Path /\ dir[p] = f
      BY <1>3
    <2>2. NameOf(f) = p
      BY <1>3 DEF NameOf, NameIn
    <2> HIDE DEF p
    <2> QED BY <1>1, <2>1, <2>2 DEF Realpath
  <1>4. CASE f # OutFile /\ ~\E p \in Path : dir[p] = f
    <2>1. NameOf(f) = "deleted"
      BY <1>4 DEF NameOf, NameIn
    <2> QED BY <1>1, <2>1 DEF Realpath
  <1> QED BY <1>2, <1>3, <1>4

(* A lookup of a descriptor that ends. *)
LEMMA LookupEnds ==
  ASSUME Inv, NEW t \in Thread, NEW w \in Text,
         th[t].pc \in {"before", "stat", "realpath", "after"}, th[t].fn \in ByFd,
         Goes(t, [th[t] EXCEPT !.pc = AfterLookup(th[t]), !.path = w]),
         UNCHANGED <<phase, out_fd, dir, fdtab, calls, done, lines, stray>>,
         th[t].alone => w = Shown(th[t].fd)
  PROVE  Inv'
  <1> DEFINE c == th[t]
             pc == AfterLookup(c)
             r == [c EXCEPT !.pc = pc, !.path = w]
  <1>0. TypeOK /\ CallInv(c)
    BY DEF Inv, ThreadInv
  <1>1. c \in Record /\ ArgInv(c) /\ c.second = "" /\ c.q = "" /\ c.fn \notin ByName
    <2>1. c.fn \notin ByName /\ c.fn # "rename"
      BY DEF ByFd, ByName
    <2> QED BY <1>0, <2>1 DEF TypeOK, Record, CallInv, ArgInv
  <1>2. pc = IF c.fn \in ResolveFirst THEN "origin" ELSE "dprintf"
    BY DEF AfterLookup
  <1>3. /\ c.pc = "before" => c.fn \in ResolveFirst
        /\ c.pc = "after" => c.fn \notin ResolveFirst
    BY <1>0 DEF CallInv, ResolveFirst, ResolveLast, ByFd
  <1> HIDE DEF c, pc
  <1>4. /\ r \in Record /\ r.pc = pc /\ r.path = w
        /\ r.fn = c.fn /\ r.p = c.p /\ r.q = c.q /\ r.fd = c.fd /\ r.second = c.second
        /\ r.ok = c.ok /\ r.alone = c.alone /\ r.subject = c.subject
    BY <1>1, <1>2 DEF Record, Step
  <1>5. Goes(t, r)
    BY DEF c, pc
  <1> HIDE DEF r
  <1>6. th'[t] = r
    BY <1>0, <1>4, <1>5, GoesOn
  <1>7. IsPast(c) <=> IsPast(r)
    BY <1>2, <1>3, <1>4 DEF IsPast, c
  <1>8. Shown(th[t].fd)' = Shown(c.fd) /\ (c.alone => w = Shown(c.fd))
    <2>1. th'[t].fd = c.fd
      BY <1>4, <1>6
    <2>2. NameOf(fdtab[th[t].fd])' = NameOf(fdtab[c.fd]) /\ fdtab'[th'[t].fd] = fdtab[c.fd]
      BY <2>1 DEF NameOf, NameIn
    <2>3. Shown(th[t].fd)' = Shown(c.fd)
      BY <2>2 DEF Shown
    <2> QED BY <2>3 DEF c
  <1>9. ArgInv(th[t])'
    BY <1>1, <1>4, <1>6 DEF ArgInv
  <1>10. CASE c.fn \in ResolveFirst
    <2>1. th'[t].alone => th'[t].path = Resolve(th[t])'
      BY <1>1, <1>4, <1>6, <1>8 DEF Resolve
    <2>2. th'[t].pc = "origin" /\ th'[t].second = "" /\ th'[t].fn = c.fn
      BY <1>1, <1>2, <1>4, <1>6, <1>10
    <2>3. CallInv(th[t])'
      BY <1>9, <1>10, <2>1, <2>2 DEF CallInv, IsPast
    <2> QED BY <1>2, <1>4, <1>5, <1>7, <1>10, <2>3, WithinCall DEF c
  <1>11. CASE c.fn \notin ResolveFirst
    <2>1. IsPast(c) /\ c.pc # "dprintf"
      BY <1>3, <1>11 DEF IsPast, c
    <2>2. ASSUME c.ok, c.alone, c.subject # "deleted" PROVE w = c.subject
      <3>1. fdtab[c.fd] # None /\ c.subject = NameOf(fdtab[c.fd])
        BY <1>0, <2>1, <2>2 DEF CallInv, c
      <3> QED BY <1>8, <2>2, <3>1 DEF Shown
    <2>3. /\ th'[t].pc = "dprintf" /\ th'[t].second = "" /\ th'[t].fn = c.fn /\ th'[t].q = ""
          /\ th'[t].path = w /\ th'[t].subject = c.subject
          /\ th'[t].ok = c.ok /\ th'[t].alone = c.alone
      BY <1>1, <1>2, <1>4, <1>6, <1>11
    <2>4. CallInv(th[t])'
      BY <1>9, <2>2, <2>3 DEF CallInv, IsPast
    <2> QED BY <1>2, <1>4, <1>5, <1>7, <1>11, <2>4, WithinCall DEF c
  <1> QED BY <1>10, <1>11

(* A lookup of a descriptor that goes on with the name it has read. *)
LEMMA LookupGoesOn ==
  ASSUME Inv, NEW t \in Thread, NEW w \in Text, NEW pc \in {"stat", "realpath"},
         th[t].pc \in {"before", "stat", "after"}, th[t].fn \in ByFd,
         Goes(t, [th[t] EXCEPT !.pc = pc, !.path = w]),
         UNCHANGED <<phase, out_fd, dir, fdtab, calls, done, lines, stray>>,
         th[t].alone => fdtab[th[t].fd] # None /\ w = NameOf(fdtab[th[t].fd])
  PROVE  Inv'
  <1> DEFINE c == th[t]
             r == [c EXCEPT !.pc = pc, !.path = w]
  <1>0. TypeOK /\ CallInv(c)
    BY DEF Inv, ThreadInv
  <1>1. c \in Record /\ ArgInv(c) /\ c.second = ""
    BY <1>0 DEF TypeOK, Record, CallInv
  <1>2. /\ c.pc = "before" => c.fn \in ResolveFirst
        /\ c.pc = "after" => c.fn \notin ResolveFirst
    BY <1>0 DEF CallInv, ResolveFirst, ResolveLast, ByFd
  <1> HIDE DEF c
  <1>3. /\ r \in Record /\ r.pc = pc /\ r.path = w
        /\ r.fn = c.fn /\ r.p = c.p /\ r.q = c.q /\ r.fd = c.fd /\ r.second = c.second
        /\ r.ok = c.ok /\ r.alone = c.alone /\ r.subject = c.subject
    BY <1>1 DEF Record, Step
  <1>4. Goes(t, r)
    BY DEF c
  <1> HIDE DEF r
  <1>5. th'[t] = r
    BY <1>0, <1>3, <1>4, GoesOn
  <1>6. IsPast(c) <=> IsPast(r)
    BY <1>2, <1>3 DEF IsPast, c
  <1>7. NameOf(fdtab[th[t].fd])' = NameOf(fdtab[c.fd]) /\ fdtab'[th'[t].fd] = fdtab[c.fd]
    <2>1. th'[t].fd = c.fd
      BY <1>3, <1>5
    <2> QED BY <2>1 DEF NameOf, NameIn
  <1>8. ArgInv(th[t])'
    BY <1>1, <1>3, <1>5 DEF ArgInv
  <1>9. ASSUME IsPast(th[t])', th'[t].ok, th'[t].alone
        PROVE  fdtab'[th'[t].fd] # None /\ th'[t].subject = NameOf(fdtab[th[t].fd])'
    <2>1. IsPast(c) /\ c.ok /\ c.alone /\ c.pc # "dprintf" /\ c.fn \in ByFd
      BY <1>3, <1>5, <1>6, <1>9 DEF IsPast, c
    <2>2. fdtab[c.fd] # None /\ c.subject = NameOf(fdtab[c.fd])
      BY <1>0, <2>1 DEF CallInv, c
    <2> QED BY <1>3, <1>5, <1>7, <2>2
  <1>10. th'[t].alone => fdtab'[th'[t].fd] # None /\ th'[t].path = NameOf(fdtab[th[t].fd])'
    BY <1>3, <1>5, <1>7 DEF c
  <1>11. th'[t].pc \in {"stat", "realpath"} /\ th'[t].second = "" /\ th'[t].fn \in ByFd
    BY <1>1, <1>3, <1>5 DEF c
  <1>12. CallInv(th[t])'
    BY <1>8, <1>9, <1>10, <1>11 DEF CallInv
  <1> QED BY <1>3, <1>4, <1>6, <1>12, WithinCall DEF c

LEMMA ReadlinkStep ==
  ASSUME Inv, NEW t \in Thread, th[t].pc \in {"before", "after"}, th[t].fn \in ByFd, Readlink(t),
         UNCHANGED <<phase, out_fd, dir, fdtab, calls, done, lines, stray>>
  PROVE  Inv'
  <1>1. CASE fdtab[th[t].fd] = None
    <2>1. Goes(t, [th[t] EXCEPT !.pc = AfterLookup(th[t]), !.path = ""])
      BY <1>1 DEF Readlink
    <2>2. "" \in Text /\ "" = Shown(th[t].fd)
      BY <1>1 DEF Text, Shown
    <2> QED BY <2>1, <2>2, LookupEnds
  <1>2. CASE fdtab[th[t].fd] # None
    <2>1. Goes(t, [th[t] EXCEPT !.pc = "stat", !.path = NameOf(fdtab[th[t].fd])])
      BY <1>2 DEF Readlink
    <2>2. NameOf(fdtab[th[t].fd]) \in Text
      BY NameType DEF Text
    <2> QED BY <1>2, <2>1, <2>2, LookupGoesOn
  <1> QED BY <1>1, <1>2

LEMMA StatStep ==
  ASSUME Inv, NEW t \in Thread, Stat(t)
  PROVE  Inv'
  <1>1. /\ th[t].pc = "stat" /\ TypeOK /\ CallInv(th[t])
        /\ UNCHANGED <<phase, out_fd, dir, fdtab, calls, done, lines, stray>>
    BY DEF Stat, Inv, ThreadInv, fsVars, logVars
  <1>2. th[t].fn \in ByFd /\ th[t] \in Record
    BY <1>1 DEF CallInv, TypeOK, Record
  <1>3. CASE fdtab[th[t].fd] = None
    <2>1. Goes(t, [th[t] EXCEPT !.pc = AfterLookup(th[t]), !.path = ""])
      BY <1>3 DEF Stat
    <2>2. "" \in Text /\ "" = Shown(th[t].fd)
      BY <1>3 DEF Text, Shown
    <2> QED BY <1>1, <1>2, <2>1, <2>2, LookupEnds
  <1>4. CASE fdtab[th[t].fd] # None
    <2> DEFINE c == th[t]
               w == c.path
    <2>1. Goes(t, [c EXCEPT !.pc = "realpath"])
      BY <1>4 DEF Stat
    <2>2. [c EXCEPT !.pc = "realpath"] = [c EXCEPT !.pc = "realpath", !.path = w]
      BY <1>2 DEF Record
    <2>3. w \in Text
      BY <1>2 DEF Record
    <2>4. c.alone => fdtab[c.fd] # None /\ w = NameOf(fdtab[c.fd])
      BY <1>1 DEF CallInv
    <2>5. Goes(t, [th[t] EXCEPT !.pc = "realpath", !.path = w])
      BY <2>1, <2>2
    <2> HIDE DEF w
    <2> QED BY <1>1, <1>2, <2>3, <2>4, <2>5, LookupGoesOn
  <1> QED BY <1>3, <1>4

LEMMA RealpathStep ==
  ASSUME Inv, NEW t \in Thread, RealpathOfLink(t)
  PROVE  Inv'
  <1> DEFINE w == Realpath(th[t].path)
  <1>1. /\ th[t].pc = "realpath" /\ TypeOK /\ CallInv(th[t])
        /\ Goes(t, [th[t] EXCEPT !.pc = AfterLookup(th[t]), !.path = w])
        /\ UNCHANGED <<phase, out_fd, dir, fdtab, calls, done, lines, stray>>
    BY DEF RealpathOfLink, Inv, ThreadInv, fsVars, logVars
  <1>2. th[t].fn \in ByFd
    BY <1>1 DEF CallInv
  <1>3. w \in Text
    BY DEF Realpath, Text
  <1>4. th[t].alone => w = Shown(th[t].fd)
    <2> SUFFICES ASSUME th[t].alone PROVE w = Shown(th[t].fd)
      OBVIOUS
    <2>1. fdtab[th[t].fd] # None /\ th[t].path = NameOf(fdtab[th[t].fd])
      BY <1>1 DEF CallInv
    <2> QED BY <2>1, RealpathOfName DEF Shown
  <1> HIDE DEF w
  <1> QED BY <1>1, <1>2, <1>3, <1>4, LookupEnds

LEMMA ResolveBeforeStep ==
  ASSUME Inv, NEW t \in Thread, ResolveBefore(t)
  PROVE  Inv'
  <1> DEFINE c == th[t]
             path == Realpath(c.p)
             r == [c EXCEPT !.pc = "origin", !.path = path]
  <1>0. TypeOK /\ CallInv(c)
    BY DEF Inv, ThreadInv
  <1>1. /\ c.pc = "before"
        /\ UNCHANGED <<phase, out_fd, dir, fdtab, calls, done, lines, stray>>
        /\ (c.fn \in ByName /\ Goes(t, r)) \/ (c.fn \in ByFd /\ Readlink(t))
    BY DEF ResolveBefore, fsVars, logVars
  <1>2. c \in Record /\ ArgInv(c) /\ c.fn \in ResolveFirst /\ c.second = ""
    BY <1>0, <1>1 DEF TypeOK, Record, CallInv
  <1>3. CASE c.fn \in ByFd /\ Readlink(t)
    BY <1>1, <1>3, ReadlinkStep
  <1>4. CASE c.fn \in ByName /\ Goes(t, r)
    <2>1. path \in Text
      BY DEF Realpath, Text
    <2> HIDE DEF path, c
    <2>2. /\ r \in Record /\ r.pc = "origin" /\ r.path = path
          /\ r.fn = c.fn /\ r.p = c.p /\ r.q = c.q /\ r.fd = c.fd /\ r.second = c.second
      BY <1>2, <2>1 DEF Record, Step
    <2> HIDE DEF r
    <2>3. th'[t] = r
      BY <1>0, <1>4, <2>2, GoesOn
    <2>4. Resolve(th[t])' = path
      BY <1>1, <1>4, <2>2, <2>3 DEF Resolve, Realpath, path
    <2>5. ArgInv(th[t])'
      BY <1>2, <2>2, <2>3 DEF ArgInv
    <2>6. CallInv(th[t])'
      BY <1>2, <2>2, <2>3, <2>4, <2>5 DEF CallInv, IsPast
    <2>7. ~IsPast(c) /\ ~IsPast(r)
      BY <1>1, <2>2 DEF IsPast
    <2> QED BY <1>1, <1>4, <2>2, <2>6, <2>7, WithinCall DEF c
  <1> QED BY <1>1, <1>3, <1>4

(* The path is resolved in the file system as the original left it. *)
LEMMA ResolveAfterStep ==
  ASSUME Inv, NEW t \in Thread, ResolveAfter(t)
  PROVE  Inv'
  <1> DEFINE c == th[t]
             path == IF c.fn = "rename" THEN c.path ELSE Realpath(c.p)
             second == IF c.fn = "rename" THEN Realpath(c.q) ELSE c.second
             r == [c EXCEPT !.pc = "dprintf", !.path = path, !.second = second]
  <1>0. TypeOK /\ CallInv(c)
    BY DEF Inv, ThreadInv
  <1>1. /\ c.pc = "after"
        /\ UNCHANGED <<phase, out_fd, dir, fdtab, calls, done, lines, stray>>
    BY DEF ResolveAfter, fsVars, logVars
  <1>2. c \in Record /\ ArgInv(c) /\ c.fn \in ResolveLast /\ c.second = ""
    BY <1>0, <1>1 DEF TypeOK, Record, CallInv
  <1>3. CASE c.fn \in ByFd
    <2>1. Readlink(t)
      BY <1>3 DEF ResolveAfter, ByFd, ByName
    <2> QED BY <1>1, <1>3, <2>1, ReadlinkStep
  <1>4. CASE c.fn \in ByName
    <2>1. path \in Text /\ second \in Text
      <3>1. c.path \in Text /\ c.second \in Text
        BY <1>2 DEF Record
      <3>2. Realpath(c.q) \in Text /\ Realpath(c.p) \in Text
        BY DEF Realpath, Text
      <3> QED BY <3>1, <3>2
    <2>2. Goes(t, r)
      <3>1. CASE c.fn = "rename"
        <4>1. r = [c EXCEPT !.pc = "dprintf", !.second = Realpath(c.q)]
          BY <1>2, <3>1 DEF Record
        <4> QED BY <3>1, <4>1 DEF ResolveAfter, ByFd
      <3>2. CASE c.fn # "rename"
        <4>1. r = [c EXCEPT !.pc = "dprintf", !.path = Realpath(c.p)]
          BY <1>2, <3>2 DEF Record
        <4>2. c.fn \notin ByFd
          BY <1>4 DEF ByName, ByFd
        <4> QED BY <3>2, <4>1, <4>2 DEF ResolveAfter
      <3> QED BY <3>1, <3>2
    <2>3. (c.ok /\ c.alone) => path = c.subject /\ second = c.q
      <3> SUFFICES ASSUME c.ok, c.alone PROVE path = c.subject /\ second = c.q
        OBVIOUS
      <3>1. /\ c.subject = c.p
            /\ c.fn = "rename" => c.path = c.p /\ dir[c.q] # None
            /\ c.fn # "rename" => dir[c.p] # None
        BY <1>0, <1>1, <1>4 DEF CallInv
      <3>2. c.p \in Path /\ (c.fn = "rename" => c.q \in Path) /\ (c.fn # "rename" => c.q = "")
        BY <1>2, <1>4 DEF ArgInv
      <3> QED BY <1>2, <3>1, <3>2 DEF Realpath
    <2> HIDE DEF path, second, c
    <2>4. /\ r \in Record /\ r.pc = "dprintf" /\ r.path = path /\ r.second = second
          /\ r.fn = c.fn /\ r.p = c.p /\ r.q = c.q /\ r.fd = c.fd
          /\ r.ok = c.ok /\ r.alone = c.alone /\ r.subject = c.subject
      BY <1>2, <2>1 DEF Record, Step
    <2> HIDE DEF r
    <2>5. th'[t] = r
      BY <1>0, <2>2, <2>4, GoesOn
    <2>6. ArgInv(th[t])'
      BY <1>2, <2>4, <2>5 DEF ArgInv
    <2>7. CallInv(th[t])'
      BY <2>3, <2>4, <2>5, <2>6 DEF CallInv
    <2>8. IsPast(c) /\ IsPast(r)
      BY <1>1, <2>4 DEF IsPast
    <2> QED BY <1>1, <2>2, <2>4, <2>7, <2>8, WithinCall DEF c
  <1> QED BY <1>2, <1>3, <1>4 DEF ResolveLast, ByName

(* The end of the program in a call through a null pointer. *)
LEMMA NoOriginStep ==
  ASSUME Inv, NEW t \in Thread, NoOrigin(t)
  PROVE  Inv'
  <1>0. TypeOK /\ CountInv /\ OutInv /\ ThreadInv
    BY DEF Inv
  <1>1. /\ phase' = "ended" /\ th' = [u \in Thread |-> Idle]
        /\ UNCHANGED <<out_fd, dir, fdtab, calls, done, lines, stray>>
    BY DEF NoOrigin, fsVars, logVars
  <1>2. Idle \in Record /\ Idle.pc = "idle"
    BY DEF Idle, Record, Step, Function, ByName, ByFd, Text
  <1>3. InCall' = {} /\ IsFiniteSet({})
    BY <1>1, <1>2, FS_EmptySet DEF InCall
  <1>4. TypeOK'
    <2>1. th' \in [Thread -> Record]
      BY <1>1, <1>2
    <2> QED BY <1>0, <1>1, <2>1 DEF TypeOK, Record
  <1>5. CountInv' /\ OutInv'
    BY <1>0, <1>1, <1>3 DEF CountInv, OutInv, LinesInOutput
  <1>6. ThreadInv'
    BY <1>1, <1>2 DEF ThreadInv, CallInv, IsPast
  <1> QED BY <1>4, <1>5, <1>6 DEF Inv

(* The line goes to the output as long as OUT_FD leads there. *)
LEMMA DprintfStep ==
  ASSUME Inv, NEW t \in Thread, Dprintf(t)
  PROVE  Inv'
  <1>0. TypeOK /\ CountInv /\ OutInv /\ ThreadInv
    BY DEF Inv
  <1> DEFINE f == IF out_fd = -1 THEN None ELSE fdtab[out_fd]
  <1>1. /\ th[t].pc = "dprintf" /\ Goes(t, Idle) /\ done' = done + 1
        /\ lines' = IF f = OutFile THEN lines + 1 ELSE lines
        /\ stray' = IF f \in {None, OutFile} THEN stray ELSE stray \cup {f}
        /\ UNCHANGED <<phase, out_fd, dir, fdtab, calls>>
    BY DEF Dprintf, fsVars
  <1>2. Idle \in Record /\ Idle.pc = "idle"
    BY DEF Idle, Record, Step, Function, ByName, ByFd, Text
  <1>3. th' \in [Thread -> Record] /\ th'[t] = Idle /\ \A u \in Thread : u # t => th'[u] = th[u]
    BY <1>0, <1>1, <1>2, GoesOn
  <1>4. f \notin {None, OutFile} => f \in File /\ f \in Used
    BY <1>0 DEF TypeOK, Used
  <1> HIDE DEF f
  <1>5. /\ InCall' = InCall \ {t} /\ t \in InCall
        /\ Past' = Past \ {t} /\ t \in Past
    BY <1>1, <1>2, <1>3 DEF InCall, Past, IsPast
  <1>6. /\ IsFiniteSet(InCall') /\ Cardinality(InCall') = Cardinality(InCall) - 1
        /\ Cardinality(Past') = Cardinality(Past) - 1
        /\ Cardinality(InCall) \in Nat /\ Cardinality(Past) \in Nat
    <2>1. IsFiniteSet(InCall) /\ IsFiniteSet(Past)
      BY <1>0, PastFinite DEF CountInv
    <2> QED BY <1>5, <2>1, FS_RemoveElement, FS_CardinalityType
  <1>7. Cardinality(InCall) >= 1
    <2>1. Cardinality(InCall') \in Nat
      BY <1>6, FS_CardinalityType
    <2> QED BY <1>6, <2>1
  <1>8. calls \in 0..MaxCalls /\ done \in 0..calls /\ lines \in 0..done /\ MaxCalls \in Nat
        /\ calls = done + Cardinality(InCall) /\ phase # "ended"
    BY <1>0, <1>5, LoggerAssumption DEF TypeOK, CountInv
  <1>9. TypeOK'
    <2>1. calls' \in 0..MaxCalls /\ done' \in 0..calls' /\ lines' \in 0..done'
      BY <1>1, <1>6, <1>7, <1>8
    <2>2. stray' \subseteq File
      BY <1>0, <1>1, <1>4 DEF TypeOK
    <2> QED BY <1>0, <1>1, <1>3, <2>1, <2>2 DEF TypeOK, Record
  <1>10. CountInv'
    <2>1. Used' \subseteq Used
      BY <1>1, <1>4 DEF Used
    <2>2. calls' = done' + Cardinality(InCall')
      BY <1>1, <1>6, <1>8
    <2>3. 2 + done' + Cardinality(Past') = 2 + done + Cardinality(Past)
      BY <1>1, <1>6, <1>8
    <2> QED BY <1>0, <1>1, <1>6, <1>8, <2>1, <2>2, <2>3 DEF CountInv
  <1>11. OutInv'
    <2>1. phase # "launcher"
      BY <1>0, <1>5 DEF OutInv
    <2>2. LinesInOutput'
      <3> SUFFICES ASSUME out_fd # -1, fdtab[out_fd] = OutFile
                   PROVE  lines' = done' /\ stray' = {}
        BY <1>1 DEF LinesInOutput
      <3> QED BY <1>0, <1>1 DEF f, OutInv, LinesInOutput
    <2> QED BY <1>0, <1>1, <2>1, <2>2 DEF OutInv
  <1>12. ThreadInv'
    <2> SUFFICES ASSUME NEW u \in Thread PROVE CallInv(th[u])'
      BY DEF ThreadInv
    <2>1. CASE u # t
      BY <1>0, <1>1, <1>3, <2>1, CallSame DEF ThreadInv
    <2>2. CASE u = t
      BY <1>2, <1>3, <2>2 DEF CallInv, IsPast
    <2> QED BY <2>1, <2>2
  <1> QED BY <1>9, <1>10, <1>11, <1>12 DEF Inv

-----------------------------------------------------------------------------
(* The original. *)

(* What an original does to names and descriptors: nothing leads to the    *)
(* output that did not before, and a file that is new has a new number.    *)
LEMMA OriginEffect ==
  ASSUME TypeOK, OutInv, NEW c \in Record, ArgInv(c), Origin(c), Fresh \in File \ Used
  PROVE  /\ dir' \in [Path -> File \cup {None}]
         /\ fdtab' \in [FD -> File \cup {None}]
         /\ \A p \in Path : dir'[p] \in Used \cup {None, Fresh} /\ dir'[p] # OutFile
         /\ \A f \in FD : /\ fdtab'[f] \in Used \cup {None, Fresh}
                          /\ fdtab'[f] = OutFile => fdtab[f] = OutFile
  <1>0. /\ dir \in [Path -> File \cup {None}] /\ fdtab \in [FD -> File \cup {None}]
        /\ \A p \in Path : dir[p] # OutFile /\ dir[p] \in Used
        /\ \A f \in FD : fdtab[f] \in Used
        /\ Fresh \in File /\ Fresh # OutFile /\ None # OutFile
    BY FileFacts DEF TypeOK, OutInv, Used
  <1>1. CASE c.fn \in Creating /\ CreateFile(c.p)
    <2>1. c.p \in Path
      BY <1>1 DEF ArgInv, Creating, ByName
    <2>2. PICK f \in FD : /\ \/ dir[c.p] # None /\ UNCHANGED dir
                             \/ dir[c.p] = None /\ dir' = [dir EXCEPT ![c.p] = Fresh]
                          /\ fdtab' = [fdtab EXCEPT ![f] = dir'[c.p]]
      BY <1>1 DEF CreateFile
    <2>3. /\ dir' \in [Path -> File \cup {None}]
          /\ \A p \in Path : dir'[p] = dir[p] \/ dir'[p] = Fresh
      BY <1>0, <2>1, <2>2
    <2>4. /\ fdtab' \in [FD -> File \cup {None}]
          /\ \A g \in FD : fdtab'[g] = fdtab[g] \/ fdtab'[g] = dir'[c.p]
      BY <1>0, <2>1, <2>2, <2>3
    <2> QED BY <1>0, <2>1, <2>3, <2>4
  <1>2. CASE UNCHANGED fsVars
    BY <1>0, <1>2 DEF fsVars
  <1>3. CASE c.fn = "remove" /\ dir' = [dir EXCEPT ![c.p] = None] /\ UNCHANGED fdtab
    BY <1>0, <1>3
  <1>4. CASE /\ c.fn = "rename" /\ dir[c.p] # None
             /\ dir' = [x \in Path |-> IF x = c.q THEN dir[c.p] ELSE IF x = c.p THEN None ELSE dir[x]]
             /\ UNCHANGED fdtab
    <2>1. c.p \in Path
      BY <1>4 DEF ArgInv, ByName
    <2> QED BY <1>0, <1>4, <2>1
  <1>5. CASE fdtab' = [fdtab EXCEPT ![c.fd] = None] /\ UNCHANGED dir
    BY <1>0, <1>5
  <1>6. CASE (\E f \in FD : fdtab' = [fdtab EXCEPT ![f] = Fresh]) /\ UNCHANGED dir
    BY <1>0, <1>6
  <1> QED BY <1>1, <1>2, <1>3, <1>4, <1>5, <1>6 DEF Origin

(* What a call that succeeds has found. *)
LEMMA OriginFound ==
  ASSUME TypeOK, NEW c \in Record, ArgInv(c), Origin(c), Fresh \in File \ Used
  PROVE  /\ c.fn \in {"remove", "rename"} => dir[c.p] # None
         /\ c.fn \in (ByName \cap ResolveLast) \ {"rename"} => dir'[c.p] # None
         /\ c.fn = "rename" => dir'[c.q] # None
         /\ c.fn \in ByFd => fdtab[c.fd] # None
         /\ c.fn \in ByFd \cap ResolveLast => UNCHANGED <<dir, fdtab>>
  <1> USE DEF ByName, ByFd, ResolveFirst, ResolveLast, Creating
  <1>1. CASE c.fn \in Creating
    <2>1. c.p \in Path /\ CreateFile(c.p)
      BY <1>1 DEF ArgInv, Origin
    <2>2. dir'[c.p] # None
      <3>1. CASE dir[c.p] # None /\ UNCHANGED dir
        BY <3>1
      <3>2. CASE dir' = [dir EXCEPT ![c.p] = Fresh]
        BY <2>1, <3>2, FileFacts DEF TypeOK
      <3> QED BY <2>1, <3>1, <3>2 DEF CreateFile
    <2> QED BY <1>1, <2>2
  <1>2. CASE c.fn \in {"chmod", "chown"}
    BY <1>2 DEF Origin, fsVars
  <1>3. CASE c.fn = "remove"
    BY <1>3 DEF Origin
  <1>4. CASE c.fn = "rename"
    <2>1. c.q \in Path
      BY <1>4 DEF ArgInv
    <2>2. /\ dir[c.p] # None
          /\ dir' = [x \in Path |-> IF x = c.q THEN dir[c.p] ELSE IF x = c.p THEN None ELSE dir[x]]
      BY <1>4 DEF Origin
    <2> QED BY <1>4, <2>1, <2>2
  <1>5. CASE c.fn \in {"close", "fclose"}
    BY <1>5 DEF Origin
  <1>6. CASE c.fn \in {"fread", "fwrite", "read", "write"}
    BY <1>6 DEF Origin, fsVars
  <1>7. CASE c.fn = "tmpfile"
    BY <1>7
  <1> QED BY <1>1, <1>2, <1>3, <1>4, <1>5, <1>6, <1>7 DEF Record, Function

(* The call of another thread, whose file may be moved under it. *)
LEMMA OtherCall ==
  ASSUME TypeOK, NEW u \in Thread, CallInv(th[u]), NEW a \in BOOLEAN,
         a = (th[u].alone /\ ~(Between(th[u]) /\ Moves(th[u]))),
         th'[u] = [th[u] EXCEPT !.alone = a]
  PROVE  /\ th'[u] \in Record /\ th'[u].pc = th[u].pc /\ th'[u].fn = th[u].fn
         /\ CallInv(th[u])'
  <1> DEFINE c == th[u]
             d == [c EXCEPT !.alone = a]
  <1>1. c \in Record
    BY DEF TypeOK, Record
  <1>2. CallInv(c) /\ th'[u] = d
    OBVIOUS
  <1>3. a => c.alone /\ ~(Between(c) /\ Moves(c))
    OBVIOUS
  <1> HIDE DEF c
  <1>4. /\ d \in Record
        /\ d.pc = c.pc /\ d.fn = c.fn /\ d.p = c.p /\ d.q = c.q /\ d.fd = c.fd /\ d.path = c.path
        /\ d.second = c.second /\ d.subject = c.subject /\ d.ok = c.ok /\ d.alone = a
    BY <1>1 DEF Record
  <1> HIDE DEF d
  <1>5. ASSUME a, Between(c)
        PROVE  /\ c.fn \in ByName => dir'[c.p] = dir[c.p]
               /\ c.fn = "rename" => dir'[c.q] = dir[c.q]
               /\ c.fn \in ByFd => /\ fdtab'[c.fd] = fdtab[c.fd]
                                   /\ NameIn(dir', fdtab'[c.fd]) = NameIn(dir, fdtab[c.fd])
    BY <1>3, <1>5 DEF Moves
  <1>6. c.pc # "idle" => ArgInv(th[u])'
    <2>1. c.pc # "idle" => ArgInv(c)
      BY <1>2 DEF CallInv
    <2> QED BY <1>2, <1>4, <2>1 DEF ArgInv
  <1>7. ASSUME a, Between(c), c.fn \in ByFd
        PROVE  NameOf(fdtab[th[u].fd])' = NameOf(fdtab[c.fd])
    <2>1. /\ th'[u].fd = c.fd
          /\ NameIn(dir', fdtab'[c.fd]) = NameIn(dir, fdtab[c.fd])
      BY <1>2, <1>4, <1>5, <1>7
    <2>2. NameOf(fdtab[th[u].fd])' = NameIn(dir', fdtab'[th'[u].fd])
      BY DEF NameOf, NameIn
    <2> QED BY <2>1, <2>2 DEF NameOf
  <1>8. (c.pc = "origin" /\ c.fn \in ResolveFirst /\ a) => c.path = Resolve(th[u])'
    <2> SUFFICES ASSUME c.pc = "origin", c.fn \in ResolveFirst, a PROVE c.path = Resolve(th[u])'
      OBVIOUS
    <2>1. Between(c) /\ c.alone
      BY <1>3 DEF Between
    <2>2. c.path = Resolve(c)
      BY <1>2, <2>1 DEF CallInv
    <2>3. CASE c.fn \in ByName
      <3>1. dir'[c.p] = dir[c.p] /\ th'[u].fn \in ByName /\ th'[u].p = c.p
        BY <1>2, <1>4, <1>5, <2>1, <2>3
      <3> QED BY <2>2, <2>3, <3>1 DEF Resolve, Realpath
    <2>4. CASE c.fn \in ByFd
      <3>1. c.fn \notin ByName
        BY <2>4 DEF ByFd, ByName
      <3>2. fdtab'[th'[u].fd] = fdtab[c.fd] /\ th'[u].fn = c.fn
        BY <1>2, <1>4, <1>5, <2>1, <2>4
      <3>3. NameOf(fdtab[th[u].fd])' = NameOf(fdtab[c.fd])
        BY <1>7, <2>1, <2>4
      <3>4. Shown(th[u].fd)' = Shown(c.fd)
        BY <3>2, <3>3 DEF Shown
      <3> QED BY <2>2, <3>1, <3>2, <3>4 DEF Resolve
    <2> QED BY <2>3, <2>4 DEF ResolveFirst, ByName, ByFd
  <1>9. (c.pc = "after" /\ c.ok /\ a /\ c.fn \in ByName) =>
          /\ c.subject = c.p
          /\ c.fn = "rename" => c.path = c.p /\ dir'[c.q] # None
          /\ c.fn # "rename" => dir'[c.p] # None
    <2> SUFFICES ASSUME c.pc = "after", c.ok, a, c.fn \in ByName
                 PROVE  /\ c.subject = c.p
                        /\ c.fn = "rename" => c.path = c.p /\ dir'[c.q] # None
                        /\ c.fn # "rename" => dir'[c.p] # None
      OBVIOUS
    <2>1. Between(c) /\ c.alone
      BY <1>3 DEF Between
    <2>2. /\ c.subject = c.p
          /\ c.fn = "rename" => c.path = c.p /\ dir[c.q] # None
          /\ c.fn # "rename" => dir[c.p] # None
      BY <1>2, <2>1 DEF CallInv
    <2> QED BY <1>5, <2>1, <2>2
  <1>10. (IsPast(c) /\ c.pc # "dprintf" /\ c.ok /\ a /\ c.fn \in ByFd) =>
           fdtab'[c.fd] # None /\ c.subject = NameOf(fdtab[th[u].fd])'
    <2> SUFFICES ASSUME IsPast(c), c.pc # "dprintf", c.ok, a, c.fn \in ByFd
                 PROVE  fdtab'[c.fd] # None /\ c.subject = NameOf(fdtab[th[u].fd])'
      OBVIOUS
    <2>1. Between(c) /\ c.alone
      BY <1>3 DEF Between, IsPast
    <2>2. fdtab[c.fd] # None /\ c.subject = NameOf(fdtab[c.fd])
      BY <1>2, <2>1 DEF CallInv
    <2> QED BY <1>5, <1>7, <2>1, <2>2
  <1>11. (c.pc \in {"stat", "realpath"} /\ a) =>
           fdtab'[c.fd] # None /\ c.path = NameOf(fdtab[th[u].fd])'
    <2> SUFFICES ASSUME c.pc \in {"stat", "realpath"}, a
                 PROVE  fdtab'[c.fd] # None /\ c.path = NameOf(fdtab[th[u].fd])'
      OBVIOUS
    <2>1. Between(c) /\ c.alone
      BY <1>3 DEF Between
    <2>2. fdtab[c.fd] # None /\ c.path = NameOf(fdtab[c.fd]) /\ c.fn \in ByFd
      BY <1>2, <2>1 DEF CallInv
    <2> QED BY <1>5, <1>7, <2>1, <2>2
  <1>12. CallInv(th[u])'
    <2>1. /\ c.pc = "before" => c.fn \in ResolveFirst
          /\ c.pc \in {"stat", "realpath"} => c.fn \in ByFd
          /\ c.pc \notin {"idle", "dprintf"} => c.second = ""
          /\ (c.pc = "origin" /\ c.fn \notin ResolveFirst) => c.path = ""
          /\ c.pc = "after" => c.fn \in ResolveLast
          /\ (c.pc = "dprintf" /\ c.ok /\ a /\ c.subject # "deleted") =>
               c.path = c.subject /\ c.second = c.q
      BY <1>2, <1>3 DEF CallInv
    <2>2. IsPast(th[u])' <=> IsPast(c)
      BY <1>2, <1>4 DEF IsPast
    <2>3. ((c.pc = "after" /\ c.ok /\ a /\ c.fn \in ByName) =>
             /\ th'[u].subject = th'[u].p
             /\ th'[u].fn = "rename" => th'[u].path = th'[u].p /\ dir'[th'[u].q] # None
             /\ th'[u].fn # "rename" => dir'[th'[u].p] # None)
      BY <1>2, <1>4, <1>9
    <2>4. /\ th'[u].pc = c.pc /\ th'[u].fn = c.fn /\ th'[u].p = c.p /\ th'[u].q = c.q
          /\ th'[u].fd = c.fd /\ th'[u].path = c.path /\ th'[u].second = c.second
          /\ th'[u].subject = c.subject /\ th'[u].ok = c.ok /\ th'[u].alone = a
      BY <1>2, <1>4
    <2>5. (/\ th[u].pc # "idle" => ArgInv(th[u])
           /\ th[u].pc = "before" => th[u].fn \in ResolveFirst
           /\ th[u].pc \in {"stat", "realpath"} => th[u].fn \in ByFd
           /\ th[u].pc \notin {"idle", "dprintf"} => th[u].second = ""
           /\ (th[u].pc = "origin" /\ th[u].fn \notin ResolveFirst) => th[u].path = ""
           /\ (th[u].pc = "origin" /\ th[u].fn \in ResolveFirst /\ th[u].alone) =>
                th[u].path = Resolve(th[u])
           /\ th[u].pc = "after" => th[u].fn \in ResolveLast)'
      BY <1>6, <1>8, <2>1, <2>4
    <2>6. ((th[u].pc = "after" /\ th[u].ok /\ th[u].alone /\ th[u].fn \in ByName) =>
             /\ th[u].subject = th[u].p
             /\ th[u].fn = "rename" => th[u].path = th[u].p /\ dir[th[u].q] # None
             /\ th[u].fn # "rename" => dir[th[u].p] # None)'
      BY <2>3, <2>4
    <2>7. ((IsPast(th[u]) /\ th[u].pc # "dprintf" /\ th[u].ok /\ th[u].alone /\ th[u].fn \in ByFd) =>
             fdtab[th[u].fd] # None /\ th[u].subject = NameOf(fdtab[th[u].fd]))'
      BY <1>10, <2>2, <2>4
    <2>8. ((th[u].pc \in {"stat", "realpath"} /\ th[u].alone) =>
             fdtab[th[u].fd] # None /\ th[u].path = NameOf(fdtab[th[u].fd]))'
      BY <1>11, <2>4
    <2>9. ((th[u].pc = "dprintf" /\ th[u].ok /\ th[u].alone /\ th[u].subject # "deleted") =>
              th[u].path = th[u].subject /\ th[u].second = th[u].q)'
      BY <2>1, <2>4
    <2> QED BY <2>5, <2>6, <2>7, <2>8, <2>9 DEF CallInv
  <1>13. th'[u].pc = th[u].pc /\ th'[u].fn = th[u].fn
    BY <1>2, <1>4 DEF c
  <1> QED BY <1>2, <1>4, <1>12, <1>13

(* The original of thread t: what the call has found, and what is left of  *)
(* the knowledge of the others.                                            *)
LEMMA CallOriginStep ==
  ASSUME Inv, NEW t \in Thread, CallOrigin(t)
  PROVE  Inv'
  <1>0. TypeOK /\ CountInv /\ OutInv /\ ThreadInv
    BY DEF Inv
  <1> DEFINE c == th[t]
             subject == Subject(c)
             pc == IF c.fn \in ResolveLast THEN "after" ELSE "dprintf"
  <1>1. c.pc = "origin" /\ UNCHANGED <<phase, out_fd, calls, done, lines, stray>>
    BY DEF CallOrigin, logVars
  <1>2. PICK ok \in BOOLEAN :
          /\ IF ok THEN Origin(c) ELSE UNCHANGED fsVars
          /\ th' = [u \in Thread |->
               IF u # t THEN [th[u] EXCEPT !.alone = @ /\ ~(Between(th[u]) /\ Moves(th[u]))]
               ELSE [c EXCEPT !.pc = pc, !.subject = subject, !.ok = ok]]
    BY DEF CallOrigin
  <1> DEFINE r == [c EXCEPT !.pc = pc, !.subject = subject, !.ok = ok]
  <1>3. c \in Record /\ CallInv(c) /\ ArgInv(c) /\ c.second = ""
    BY <1>0, <1>1 DEF TypeOK, Record, ThreadInv, CallInv
  <1>4. subject \in Text
    BY <1>3, LookupType
  <1>5. th'[t] = r
    BY <1>2
  <1>6. \A u \in Thread : u # t =>
          /\ th'[u].pc = th[u].pc /\ th'[u].fn = th[u].fn
          /\ th'[u] \in Record /\ CallInv(th[u])'
    <2> SUFFICES ASSUME NEW u \in Thread, u # t
                 PROVE  /\ th'[u].pc = th[u].pc /\ th'[u].fn = th[u].fn
                        /\ th'[u] \in Record /\ CallInv(th[u])'
      OBVIOUS
    <2> DEFINE a == th[u].alone /\ ~(Between(th[u]) /\ Moves(th[u]))
    <2>1. th'[u] = [th[u] EXCEPT !.alone = a]
      BY <1>2
    <2>2. a \in BOOLEAN
      OBVIOUS
    <2>3. CallInv(th[u])
      BY <1>0 DEF ThreadInv
    <2> QED BY <1>0, <2>1, <2>2, <2>3, OtherCall
  <1> HIDE DEF c, subject
  <1>7. /\ r \in Record /\ r.pc = pc /\ r.subject = subject /\ r.ok = ok
        /\ r.fn = c.fn /\ r.p = c.p /\ r.q = c.q /\ r.fd = c.fd
        /\ r.path = c.path /\ r.second = c.second /\ r.alone = c.alone
    BY <1>3, <1>4 DEF Record, Step
  <1> HIDE DEF r
  <1>8. th' \in [Thread -> Record]
    <2>1. \A u \in Thread : th'[u] \in Record
      BY <1>5, <1>6, <1>7
    <2>2. DOMAIN th' = Thread /\ th' = [u \in DOMAIN th' |-> th'[u]]
      BY <1>2
    <2> QED BY <2>1, <2>2
  <1>9. Fresh \in File \ Used /\ Fresh <= 3 + done + Cardinality(Past)
    BY <1>0, <1>1, FreshFile DEF c
  <1>10. /\ dir' \in [Path -> File \cup {None}]
         /\ fdtab' \in [FD -> File \cup {None}]
         /\ \A p \in Path : dir'[p] \in Used \cup {None, Fresh} /\ dir'[p] # OutFile
         /\ \A f \in FD : /\ fdtab'[f] \in Used \cup {None, Fresh}
                          /\ fdtab'[f] = OutFile => fdtab[f] = OutFile
    <2>1. CASE ok
      BY <1>0, <1>2, <1>3, <1>9, <2>1, OriginEffect
    <2>2. CASE ~ok
      <3>1. UNCHANGED <<dir, fdtab>>
        BY <1>2, <2>2 DEF fsVars
      <3> QED BY <1>0, <3>1 DEF TypeOK, OutInv, Used
    <2> QED BY <2>1, <2>2
  <1>11. /\ InCall' = InCall /\ t \in InCall
         /\ Past' = Past \cup {t} /\ t \notin Past
    <2>1. c.pc = "origin" /\ th'[t].pc \in {"after", "dprintf"}
      BY <1>1, <1>5, <1>7
    <2>2. /\ ~IsPast(th[t]) /\ IsPast(th[t])'
          /\ \A u \in Thread : u # t => (IsPast(th[u])' <=> IsPast(th[u]))
      BY <1>6, <2>1 DEF IsPast, c
    <2>3. InCall' = InCall /\ t \in InCall
      BY <1>6, <2>1 DEF InCall, c
    <2> QED BY <2>2, <2>3 DEF Past
  <1>12. TypeOK'
    BY <1>0, <1>1, <1>8, <1>10 DEF TypeOK, Record
  <1>13. CountInv'
    <2>1. /\ IsFiniteSet(Past) /\ Cardinality(Past) \in Nat
          /\ Cardinality(Past') = Cardinality(Past) + 1
      BY <1>0, <1>11, PastFinite, FS_AddElement DEF CountInv
    <2>2. done \in Nat /\ calls = done + Cardinality(InCall) /\ phase # "ended"
      <3>1. calls \in 0..MaxCalls /\ done \in 0..calls /\ MaxCalls \in Nat
        BY <1>0, LoggerAssumption DEF TypeOK
      <3>2. phase # "ended"
        BY <1>0, <1>11 DEF CountInv
      <3> QED BY <1>0, <3>1, <3>2 DEF CountInv
    <2>3. ASSUME NEW f \in Used' PROVE f <= 2 + done' + Cardinality(Past')
      <3>1. f \in Used \cup {None, Fresh}
        BY <1>1, <1>10 DEF Used
      <3>2. CASE f \in Used
        <4>1. f <= 2 + done + Cardinality(Past)
          BY <1>0, <2>2, <3>2 DEF CountInv
        <4>2. f \in File \cup {None}
          BY <1>0, <3>2, UsedFiles
        <4>3. f \in Nat
          BY <4>2 DEF File, None
        <4> QED BY <1>1, <2>1, <2>2, <4>1, <4>3
      <3>3. CASE f = None
        BY <1>1, <2>1, <2>2, <3>3, FileFacts
      <3>4. CASE f = Fresh
        <4>1. Fresh \in Nat
          BY <1>9 DEF File
        <4> QED BY <1>1, <1>9, <2>1, <2>2, <3>4, <4>1
      <3> QED BY <3>1, <3>2, <3>3, <3>4
    <2> QED BY <1>0, <1>1, <1>11, <2>2, <2>3 DEF CountInv
  <1>14. OutInv'
    <2>1. phase # "launcher"
      BY <1>0, <1>11 DEF OutInv
    <2>2. LinesInOutput'
      <3> SUFFICES ASSUME out_fd # -1, fdtab'[out_fd] = OutFile PROVE lines = done /\ stray = {}
        BY <1>1 DEF LinesInOutput
      <3>1. out_fd \in FD
        BY <1>0 DEF TypeOK
      <3>2. fdtab[out_fd] = OutFile
        BY <1>10, <3>1
      <3> QED BY <1>0, <3>2 DEF OutInv, LinesInOutput
    <2> QED BY <1>1, <1>10, <2>1, <2>2 DEF OutInv
  <1>15. CallInv(th[t])'
    <2>1. ArgInv(th[t])'
      BY <1>3, <1>5, <1>7 DEF ArgInv
    <2>2. CASE ok
      <3>1. /\ c.fn \in {"remove", "rename"} => dir[c.p] # None
            /\ c.fn \in (ByName \cap ResolveLast) \ {"rename"} => dir'[c.p] # None
            /\ c.fn = "rename" => dir'[c.q] # None
            /\ c.fn \in ByFd => fdtab[c.fd] # None
            /\ c.fn \in ByFd \cap ResolveLast => UNCHANGED <<dir, fdtab>>
        BY <1>0, <1>2, <1>3, <1>9, <2>2, OriginFound
      <3>2. c.fn \in ByName => subject = c.p
        BY DEF subject, Subject, ByName, ByFd
      <3>3. c.fn \in ByFd => subject = NameOf(fdtab[c.fd])
        BY <3>1 DEF subject, Subject, ByName, ByFd
      <3>4. CASE c.fn \in ByName \cap ResolveLast
        <4>1. c.fn = "rename" /\ c.alone => c.path = c.p
          <5> SUFFICES ASSUME c.fn = "rename", c.alone PROVE c.path = c.p
            OBVIOUS
          <5>1. c.path = Resolve(c)
            BY <1>1, <1>3 DEF CallInv, ResolveFirst
          <5>2. c.p \in Path /\ dir[c.p] # None
            BY <1>3, <3>1 DEF ArgInv, ByName
          <5> QED BY <5>1, <5>2 DEF Resolve, Realpath, ByName
        <4>2. pc = "after" /\ c.fn \notin ByFd
          BY <3>4 DEF ByName, ByFd
        <4> QED BY <1>3, <1>5, <1>7, <2>1, <3>1, <3>2, <3>4, <4>1, <4>2 DEF CallInv, IsPast
      <3>5. CASE c.fn \in ByFd \cap ResolveLast
        <4>1. pc = "after" /\ c.fn \notin ByName
          BY <3>5 DEF ByName, ByFd
        <4>2. NameOf(fdtab[th[t].fd])' = NameOf(fdtab[c.fd])
          BY <1>5, <1>7, <3>1, <3>5 DEF NameOf, NameIn
        <4>3. fdtab'[c.fd] # None
          BY <3>1, <3>5
        <4> QED BY <1>3, <1>5, <1>7, <2>1, <3>3, <3>5, <4>1, <4>2, <4>3 DEF CallInv, IsPast
      <3>6. CASE c.fn \notin ResolveLast
        <4>1. pc = "dprintf" /\ c.q = ""
          BY <1>3, <3>6 DEF ArgInv, ResolveLast
        <4>2. ASSUME c.alone, subject # "deleted" PROVE c.path = subject
          <5>1. CASE c.fn = "remove"
            <6>1. c.path = Resolve(c)
              BY <1>1, <1>3, <4>2, <5>1 DEF CallInv, ResolveFirst
            <6> QED BY <1>3, <3>1, <3>2, <5>1, <6>1 DEF Resolve, Realpath, ByName, ArgInv
          <5>2. CASE c.fn \in {"close", "fclose"}
            <6>1. c.path = Resolve(c)
              BY <1>1, <1>3, <4>2, <5>2 DEF CallInv, ResolveFirst
            <6>2. c.fn \in ByFd /\ c.fn \notin ByName
              BY <5>2 DEF ByFd, ByName
            <6> QED BY <3>1, <3>3, <4>2, <6>1, <6>2 DEF Resolve, Shown
          <5>3. CASE c.fn = "tmpfile"
            <6>1. c.path = ""
              BY <1>1, <1>3, <5>3 DEF CallInv, ResolveFirst
            <6>2. subject = ""
              BY <5>3 DEF subject, Subject, ByName, ByFd
            <6> QED BY <6>1, <6>2
          <5>4. c.fn \in {"remove", "close", "fclose", "tmpfile"}
            BY <1>3, <3>6 DEF Record, Function, ByName, ByFd, ResolveFirst, ResolveLast
          <5> QED BY <5>1, <5>2, <5>3, <5>4
        <4> QED BY <1>3, <1>5, <1>7, <2>1, <4>1, <4>2 DEF CallInv, IsPast
      <3>7. c.fn \in ResolveLast => c.fn \in ByName \/ c.fn \in ByFd
        BY DEF ResolveLast, ByName
      <3> QED BY <3>4, <3>5, <3>6, <3>7
    <2>3. CASE ~ok
      BY <1>3, <1>5, <1>7, <2>1, <2>3 DEF CallInv, IsPast
    <2> QED BY <2>2, <2>3
  <1>16. ThreadInv'
    BY <1>6, <1>15 DEF ThreadInv
  <1> QED BY <1>12, <1>13, <1>14, <1>16 DEF Inv

-----------------------------------------------------------------------------
(* The specification. *)

LEMMA Initially == Init => Inv
  <1> SUFFICES ASSUME Init PROVE Inv
    OBVIOUS
  <1>1. /\ phase = "launcher" /\ out_fd = -1 /\ fdtab = [f \in FD |-> None]
        /\ th = [t \in Thread |-> Idle]
        /\ calls = 0 /\ done = 0 /\ lines = 0 /\ stray = {}
    BY DEF Init
  <1>2. PICK e \in Path : dir = [p \in Path |-> IF p = e THEN 2 ELSE None]
    BY DEF Init
  <1>3. Idle \in Record /\ Idle.pc = "idle"
    BY DEF Idle, Record, Step, Function, ByName, ByFd, Text
  <1>4. InCall = {} /\ Past = {}
    BY <1>1, <1>3 DEF InCall, Past, IsPast
  <1>5. Path # {} /\ 2 \in File
    BY <1>2, FileFacts DEF File
  <1>6. TypeOK
    <2>1. dir \in [Path -> File \cup {None}] /\ fdtab \in [FD -> File \cup {None}]
      BY <1>1, <1>2, <1>5
    <2>2. th \in [Thread -> Record]
      BY <1>1, <1>3
    <2>3. calls \in 0..MaxCalls /\ done \in 0..calls /\ lines \in 0..done
      BY <1>1, FileFacts
    <2> QED BY <1>1, <2>1, <2>2, <2>3 DEF TypeOK, Record
  <1>7. CountInv
    <2>1. IsFiniteSet({}) /\ Cardinality({}) = 0
      BY FS_EmptySet
    <2>2. \A f \in Used : f \in {0, 1, 2}
      BY <1>1, <1>2, FileFacts DEF Used
    <2> QED BY <1>1, <1>4, <1>5, <2>1, <2>2 DEF CountInv
  <1>8. OutInv
    BY <1>1, <1>2, <1>4, FileFacts DEF OutInv, LinesInOutput
  <1>9. ThreadInv
    BY <1>1, <1>3 DEF ThreadInv, CallInv, IsPast
  <1> QED BY <1>6, <1>7, <1>8, <1>9 DEF Inv

LEMMA Stutter == Inv /\ UNCHANGED vars => Inv'
  <1> SUFFICES ASSUME TypeOK, CountInv, OutInv, ThreadInv, UNCHANGED vars PROVE Inv'
    BY DEF Inv
  <1>1. UNCHANGED <<phase, out_fd, dir, fdtab, th, calls, done, lines, stray>>
    BY DEF vars, fsVars, logVars
  <1>2. InCall' = InCall /\ Past' = Past /\ Used' = Used
    BY <1>1 DEF InCall, Past, IsPast, Used
  <1>3. TypeOK'
    BY <1>1 DEF TypeOK
  <1>4. CountInv' /\ OutInv'
    BY <1>1, <1>2 DEF CountInv, OutInv, LinesInOutput
  <1>5. ThreadInv'
    BY <1>1, CallSame DEF ThreadInv
  <1> QED BY <1>3, <1>4, <1>5 DEF Inv

(* The inductive invariant holds throughout. *)
THEOREM Invariance == Spec => []Inv
  <1>1. Inv /\ [Next]_vars => Inv'
    <2> SUFFICES ASSUME Inv, [Next]_vars PROVE Inv'
      OBVIOUS
    <2>1. CASE Usage \/ Launch \/ Exit
      BY <2>1, LauncherStep
    <2>2. CASE Ended \/ UNCHANGED vars
      BY <2>2, Stutter DEF Ended
    <2>3. ASSUME NEW t \in Thread,
                 \/ Call(t) \/ ResolveBefore(t) \/ Stat(t) \/ RealpathOfLink(t)
                 \/ NoOrigin(t) \/ CallOrigin(t) \/ ResolveAfter(t) \/ Dprintf(t)
          PROVE  Inv'
      BY <2>3, CallStep, ResolveBeforeStep, StatStep, RealpathStep, NoOriginStep, CallOriginStep,
         ResolveAfterStep, DprintfStep
    <2> QED BY <2>1, <2>2, <2>3 DEF Next
  <1> QED BY <1>1, Initially, PTL DEF Spec

(* Every variable keeps its type: in particular a file number is always    *)
(* left for a call that makes a file, and no line is printed twice.        *)
THEOREM TypeCorrect == Spec => []TypeOK
  <1>1. Inv => TypeOK
    BY DEF Inv
  <1> QED BY <1>1, Invariance, PTL

(* Until the program closes the descriptor of OUT_FD, each call that       *)
(* returned has left one line in the output and none in the program's own  *)
(* files, however the threads interleave (Dprintf; the launcher's open).   *)
THEOREM LinesReachOutput == Spec => []LinesInOutput
  <1>1. Inv => LinesInOutput
    BY DEF Inv, OutInv
  <1> QED BY <1>1, Invariance, PTL

(* The line of a call that succeeds names the file the call was about,     *)
(* unless the file had no name left or another thread moved it during the  *)
(* lookup of its path or between that and the original, for any number of  *)
(* threads and for each of the fourteen functions' own order of the two.   *)
THEOREM LinesNameFiles == Spec => []LineNamesFile
  <1>1. Inv => LineNamesFile
    BY DEF Inv, ThreadInv, CallInv, LineNamesFile
  <1> QED BY <1>1, Invariance, PTL

=============================================================================
