------------------------------- MODULE Logger -------------------------------
(***************************************************************************)
(* hw2: the launcher that preloads logger.so, and the functions of         *)
(* inject_glibc.cpp around the library calls of the program it starts.     *)
(*                                                                         *)
(* A replaced function makes steps that other threads can come between:    *)
(* resolve a path, call the original, resolve a path, print the line.      *)
(* Which of them it makes, and in which order, differs from function to    *)
(* function; to resolve a descriptor takes three steps itself.             *)
(*                                                                         *)
(* A path stands for its absolute form, a FILE for its descriptor.  File   *)
(* contents, modes and flags are left out; of a line the paths are kept.   *)
(***************************************************************************)
EXTENDS Integers, FiniteSets

CONSTANTS
  Thread,    \* threads of the program
  Path,      \* file names the program uses
  FD,        \* its descriptors
  OutFd,     \* the descriptor the launcher gets for its output
  TmpFiles,  \* does it call tmpfile?
  MaxCalls   \* bound on the number of calls

ASSUME LoggerAssumption ==
  /\ FD \subseteq Nat \ {0} /\ IsFiniteSet(FD) /\ OutFd \in FD
  /\ {"", "(null)", "deleted", "output"} \cap Path = {} /\ IsFiniteSet(Path)
  /\ TmpFiles \in BOOLEAN
  /\ MaxCalls \in Nat

VARIABLES
  phase,    \* launcher, running or ended
  out_fd,   \* the value of OUT_FD
  dir,      \* the file each name leads to
  fdtab,    \* the file of each descriptor
  th,       \* the call each thread is in
  calls,    \* calls begun
  done,     \* calls that returned
  lines,    \* lines in the output
  stray     \* files of the program's own that hold log lines

fsVars == <<dir, fdtab>>
logVars == <<done, lines, stray>>
vars == <<phase, out_fd, fsVars, th, calls, logVars>>

None == 0
OutFile == 1
File == 1..(MaxCalls + Cardinality(Path) + 1)

ByName == {"chmod", "chown", "creat", "fopen", "open", "remove", "rename"}
ByFd == {"close", "fclose", "fread", "fwrite", "read", "write"}
Function == ByName \cup ByFd \cup {"tmpfile"}

Creating == {"creat", "fopen", "open"}

(* Mutant: close resolves its path last. *)
ResolveFirstNoClose == {"fclose", "remove", "rename"}

(* The functions that resolve a path before they call the original ("order *)
(* matter"), and those that resolve one after; rename does both.           *)
ResolveFirst == {"close", "fclose", "remove", "rename"}
ResolveLast == ((ByName \cup ByFd) \ ResolveFirst) \cup {"rename"}

Text == Path \cup {"", "(null)", "deleted", "output"}
Step == {"idle", "before", "stat", "realpath", "origin", "after", "dprintf"}
Idle == [pc |-> "idle", fn |-> "chmod", p |-> "", q |-> "", fd |-> None,
         path |-> "", second |-> "", subject |-> "", ok |-> FALSE, alone |-> TRUE]

(* The values of each variable; no more lines than calls that returned.    *)
TypeOK ==
  /\ phase \in {"launcher", "running", "ended"}
  /\ out_fd \in FD \cup {-1}
  /\ dir \in [Path -> File \cup {None}]
  /\ fdtab \in [FD -> File \cup {None}]
  /\ th \in [Thread -> [pc : Step, fn : Function, p : Path \cup {""}, q : Path \cup {""},
                        fd : FD \cup {None}, path : Text, second : Text,
                        subject : Text, ok : BOOLEAN, alone : BOOLEAN]]
  /\ calls \in 0..MaxCalls /\ done \in 0..calls /\ lines \in 0..done
  /\ stray \subseteq File

(* One name exists, and the program has no file open. *)
Init ==
  /\ phase = "launcher" /\ out_fd = -1
  /\ dir \in {[p \in Path |-> IF p = e THEN 2 ELSE None] : e \in Path}
  /\ fdtab = [f \in FD |-> None]
  /\ th = [t \in Thread |-> Idle]
  /\ calls = 0 /\ done = 0 /\ lines = 0 /\ stray = {}

-----------------------------------------------------------------------------
(* The launcher. *)

(* A bad option or no command. *)
Usage ==
  /\ phase = "launcher"
  /\ phase' = "ended"
  /\ UNCHANGED <<out_fd, fsVars, th, calls, logVars>>

(* The output is opened, or that fails without a word; then execvp. *)
Launch ==
  /\ phase = "launcher"
  /\ \/ out_fd' = OutFd /\ fdtab' = [fdtab EXCEPT ![OutFd] = OutFile]
     \/ out_fd' = -1 /\ UNCHANGED fdtab
  /\ phase' \in {"running", "ended"}
  /\ UNCHANGED <<dir, th, calls, logVars>>

-----------------------------------------------------------------------------
(* The file system, as the original functions use it. *)

(* The name under which the kernel shows file f, when names lead to d. *)
NameIn(d, f) ==
  IF f = OutFile THEN "output"
  ELSE IF \E p \in Path : d[p] = f THEN CHOOSE p \in Path : d[p] = f
  ELSE "deleted"
NameOf(f) == NameIn(dir, f)

Used == {dir[p] : p \in Path} \cup {fdtab[f] : f \in FD} \cup stray \cup {OutFile}
Fresh == CHOOSE f \in File \ Used : \A g \in File \ Used : f <= g
Lowest(f) == fdtab[f] = None /\ \A g \in FD : fdtab[g] = None => f <= g

(* creat, fopen and open: an existing file, or a new one. *)
CreateFile(p) ==
  \E f \in FD :
    /\ Lowest(f)
    /\ \/ dir[p] # None /\ UNCHANGED dir
       \/ dir[p] = None /\ dir' = [dir EXCEPT ![p] = Fresh]
    /\ fdtab' = [fdtab EXCEPT ![f] = dir'[p]]

(* The effect of a call that succeeds. *)
Origin(c) ==
  \/ c.fn \in Creating /\ CreateFile(c.p)
  \/ c.fn \in {"chmod", "chown"} /\ dir[c.p] # None /\ UNCHANGED fsVars
  \/ /\ c.fn = "remove" /\ dir[c.p] # None
     /\ dir' = [dir EXCEPT ![c.p] = None] /\ UNCHANGED fdtab
  \/ /\ c.fn = "rename" /\ dir[c.p] # None
     /\ dir' = [x \in Path |-> IF x = c.q THEN dir[c.p] ELSE IF x = c.p THEN None ELSE dir[x]]
     /\ UNCHANGED fdtab
  \/ /\ c.fn \in {"close", "fclose"} /\ fdtab[c.fd] # None
     /\ fdtab' = [fdtab EXCEPT ![c.fd] = None] /\ UNCHANGED dir
  \/ c.fn \in {"fread", "fwrite", "read", "write"} /\ fdtab[c.fd] # None /\ UNCHANGED fsVars
  \/ /\ c.fn = "tmpfile"
     /\ \E f \in FD : Lowest(f) /\ fdtab' = [fdtab EXCEPT ![f] = Fresh]
     /\ UNCHANGED dir

(* What the line should name: the file the call is about. *)
Subject(c) ==
  CASE c.fn \in ByName -> c.p
    [] c.fn \in ByFd -> IF fdtab[c.fd] = None THEN "" ELSE NameOf(fdtab[c.fd])
    [] OTHER -> ""

-----------------------------------------------------------------------------
(* The replaced functions. *)

(* realpath, and get_abs_path of a name: a removed file is shown as        *)
(* "name (deleted)", which realpath cannot resolve.                        *)
Realpath(name) ==
  IF name = "output" \/ (name \in Path /\ dir[name] # None) THEN name ELSE "(null)"

Goes(t, rec) == th' = [th EXCEPT ![t] = rec]
AfterLookup(c) == IF c.fn \in ResolveFirst THEN "origin" ELSE "dprintf"

(* get_abs_path of a descriptor: readlink, ... *)
Readlink(t) ==
  LET c == th[t]
  IN  \/ fdtab[c.fd] = None /\ Goes(t, [c EXCEPT !.pc = AfterLookup(c), !.path = ""])
      \/ fdtab[c.fd] # None /\ Goes(t, [c EXCEPT !.pc = "stat", !.path = NameOf(fdtab[c.fd])])

(* ... stat of what the link leads to by now, ... *)
Stat(t) ==
  /\ th[t].pc = "stat"
  /\ LET c == th[t]
     IN  \/ fdtab[c.fd] = None /\ Goes(t, [c EXCEPT !.pc = AfterLookup(c), !.path = ""])
         \/ fdtab[c.fd] # None /\ Goes(t, [c EXCEPT !.pc = "realpath"])
  /\ UNCHANGED <<phase, out_fd, fsVars, calls, logVars>>

(* ... and get_abs_path of the name that was read. *)
RealpathOfLink(t) ==
  /\ th[t].pc = "realpath"
  /\ Goes(t, [th[t] EXCEPT !.pc = AfterLookup(th[t]), !.path = Realpath(th[t].path)])
  /\ UNCHANGED <<phase, out_fd, fsVars, calls, logVars>>

Begin(t, fn, p, q, fd) ==
  Goes(t, [Idle EXCEPT !.pc = IF fn \in ResolveFirst THEN "before" ELSE "origin",
                       !.fn = fn, !.p = p, !.q = q, !.fd = fd])

(* The program calls one of the fourteen functions. *)
Call(t) ==
  /\ phase = "running" /\ th[t].pc = "idle" /\ calls < MaxCalls
  /\ \/ \E fn \in ByName \ {"rename"}, p \in Path : Begin(t, fn, p, "", None)
     \/ \E p, q \in Path : Begin(t, "rename", p, q, None)
     \/ \E fn \in ByFd, f \in FD : Begin(t, fn, "", "", f)
     \/ TmpFiles /\ Begin(t, "tmpfile", "", "", None)
  /\ calls' = calls + 1
  /\ UNCHANGED <<phase, out_fd, fsVars, logVars>>

ResolveBefore(t) ==
  /\ th[t].pc = "before"
  /\ \/ th[t].fn \in ByName /\ Goes(t, [th[t] EXCEPT !.pc = "origin", !.path = Realpath(th[t].p)])
     \/ th[t].fn \in ByFd /\ Readlink(t)
  /\ UNCHANGED <<phase, out_fd, fsVars, calls, logVars>>

(* Has this step moved what the call c of another thread is about? *)
Moves(c) ==
  \/ c.fn \in ByName /\ dir'[c.p] # dir[c.p]
  \/ c.fn = "rename" /\ dir'[c.q] # dir[c.q]
  \/ /\ c.fn \in ByFd
     /\ \/ fdtab'[c.fd] # fdtab[c.fd]
        \/ NameIn(dir', fdtab'[c.fd]) # NameIn(dir, fdtab[c.fd])

(* A call within a lookup, or between its original and a lookup. *)
Between(c) ==
  c.pc \in {"stat", "realpath", "after"} \/ (c.pc = "origin" /\ c.fn \in ResolveFirst)

(* get_origin_func: dlopen or dlsym fails, and the call through the null   *)
(* pointer is the end of the program.                                      *)
NoOrigin(t) ==
  /\ th[t].pc = "origin"
  /\ phase' = "ended" /\ th' = [u \in Thread |-> Idle]
  /\ UNCHANGED <<out_fd, fsVars, calls, logVars>>

CallOrigin(t) ==
  /\ th[t].pc = "origin"
  /\ \E ok \in BOOLEAN :
       /\ IF ok THEN Origin(th[t]) ELSE UNCHANGED fsVars
       /\ th' = [u \in Thread |->
            IF u # t THEN [th[u] EXCEPT !.alone = @ /\ ~(Between(th[u]) /\ Moves(th[u]))]
            ELSE [th[t] EXCEPT !.pc = IF th[t].fn \in ResolveLast THEN "after" ELSE "dprintf",
                               !.subject = Subject(th[t]), !.ok = ok]]
  /\ UNCHANGED <<phase, out_fd, calls, logVars>>

ResolveAfter(t) ==
  /\ th[t].pc = "after"
  /\ LET c == th[t]
     IN  \/ /\ c.fn = "rename"
            /\ Goes(t, [c EXCEPT !.pc = "dprintf", !.second = Realpath(c.q)])
         \/ /\ c.fn \in ByName \ {"rename"}
            /\ Goes(t, [c EXCEPT !.pc = "dprintf", !.path = Realpath(c.p)])
         \/ c.fn \in ByFd /\ Readlink(t)
  /\ UNCHANGED <<phase, out_fd, fsVars, calls, logVars>>

(* Mutant: a call that failed is not printed. *)
DprintfIfOk(t) ==
  /\ th[t].pc = "dprintf"
  /\ lines' = IF th[t].ok /\ out_fd # -1 THEN lines + 1 ELSE lines
  /\ done' = done + 1
  /\ Goes(t, Idle)
  /\ UNCHANGED <<phase, out_fd, fsVars, calls, stray>>

(* Mutant: the write of the line is logged too. *)
DprintfTwice(t) ==
  /\ th[t].pc = "dprintf"
  /\ lines' = IF out_fd = -1 THEN lines ELSE lines + 2
  /\ done' = done + 1
  /\ Goes(t, Idle)
  /\ UNCHANGED <<phase, out_fd, fsVars, calls, stray>>

(* dprintf to the descriptor in OUT_FD, and return. *)
Dprintf(t) ==
  /\ th[t].pc = "dprintf"
  /\ LET f == IF out_fd = -1 THEN None ELSE fdtab[out_fd]
     IN  /\ lines' = IF f = OutFile THEN lines + 1 ELSE lines
         /\ stray' = IF f \in {None, OutFile} THEN stray ELSE stray \cup {f}
  /\ done' = done + 1
  /\ Goes(t, Idle)
  /\ UNCHANGED <<phase, out_fd, fsVars, calls>>

-----------------------------------------------------------------------------
Exit ==
  /\ phase = "running" /\ \A t \in Thread : th[t].pc = "idle"
  /\ phase' = "ended"
  /\ UNCHANGED <<out_fd, fsVars, th, calls, logVars>>

Ended == phase = "ended" /\ UNCHANGED vars

Next ==
  \/ Usage \/ Launch \/ Exit \/ Ended
  \/ \E t \in Thread :
       \/ Call(t) \/ ResolveBefore(t) \/ Stat(t) \/ RealpathOfLink(t)
       \/ NoOrigin(t) \/ CallOrigin(t) \/ ResolveAfter(t) \/ Dprintf(t)

Spec == Init /\ [][Next]_vars

-----------------------------------------------------------------------------
(* Properties. *)

(* The line of a call that succeeds names the file the call was about,     *)
(* unless that file had no name left or another thread moved it during a   *)
(* lookup or between the original and a lookup: the "order matter" of      *)
(* close, fclose, remove, rename, creat and fopen, and no lock around any  *)
(* of them.  Moving is taking away or replacing the name or descriptor of  *)
(* the call, or the name of its file; what happens to other files does not *)
(* matter.                                                                 *)
LineNamesFile ==
  \A t \in Thread :
    (th[t].pc = "dprintf" /\ th[t].ok /\ th[t].alone /\ th[t].subject # "deleted") =>
      th[t].path = th[t].subject /\ th[t].second = th[t].q

(* "-o: print output to file" in the usage text: until the program closes  *)
(* the descriptor it shares with the logger, each call that returned has   *)
(* left one line in the output and nothing in the program's own files.     *)
LinesInOutput ==
  (out_fd # -1 /\ fdtab[out_fd] = OutFile) => lines = done /\ stray = {}

=============================================================================
