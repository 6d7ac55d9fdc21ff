-------------------------------- MODULE Lsof --------------------------------
(***************************************************************************)
(* The processes of /proc as hw1 lists them, one after the other: the      *)
(* constructor of class process reads comm, the owner, the links cwd, root *)
(* and exe, the memory maps and the descriptors of a process one system    *)
(* call after the other, while that process goes on, executes another      *)
(* program, or ends.  A directory of descriptors is never closed.          *)
(*                                                                         *)
(* A file stands for its path.  The owner's name is left out; the -c, -t   *)
(* and -f filters are the sets of what they let through.                   *)
(***************************************************************************)
EXTENDS Integers, Sequences, FiniteSets

CONSTANTS
  Dir,          \* a directory, the process's cwd and root
  Exe,          \* programs the process may execute
  Lib,          \* other mapped files
  Data,         \* files it may have open
  Opening,      \* what a descriptor may be: an open file and what it is open for
  Kind,         \* what set_type_field makes of each file's mode
  Anon,         \* a mapping without a file (inode 0)
  MapLines,     \* the lines of /proc/[pid]/maps of each program
  SaysDeleted,  \* files whose own path contains "deleted"
  FD,           \* descriptors
  Unlinks,      \* files that may be removed
  Procs,        \* processes in /proc
  Limit,        \* descriptors hw1 may still open
  ShownCommand, \* programs whose command passes -c
  ShownType,    \* types that pass -t
  ShownName     \* names that pass -f

File == {Dir} \cup Exe \cup Lib \cup Data
NoFile == "no file"
EACCES == "EACCES"
ENOENT == "ENOENT"
Denied == "(Permission denied)"
Empty == ""
Type == {"DIR", "REG", "CHR", "FIFO", "SOCK", "unknown", Empty}
Mode == {"r", "w", "u", Empty}
Special == {"cwd", "rtd", "txt"}
Closed == [file |-> NoFile, mode |-> Empty]

ASSUME LsofAssumption ==
  /\ Anon \notin File
  /\ Kind \in [File -> Type] /\ Opening \subseteq [file : Data, mode : Mode]
  /\ MapLines \in [Exe -> Seq(File \cup {Anon})]
  /\ SaysDeleted \subseteq File
  /\ Unlinks \subseteq File
  /\ (Special \cup {"mem", "DEL", "NOFD", Empty}) \cap FD = {}
  /\ Procs \in Nat \ {0} /\ Limit \in Nat
  /\ {NoFile, EACCES, ENOENT, Denied} \cap File = {}

VARIABLES
  status,     \* the process: live, zombie or gone
  exe,        \* the program it executes; a thread of the kernel has none
  mine,       \* may we read its links?
  fds,        \* its descriptors
  deleted,    \* files that were removed
  stage,      \* the system call of the constructor that comes next
  at,         \* the link it is for
  alive, command, hash, file_list,
  fd,         \* descriptors readdir has still to return
  link,       \* what the last readlink returned
  node,       \* the file of the last stat
  lines,      \* what the opened maps file holds
  printed,
  left,       \* entries of /proc that come after this one
  held,       \* descriptors that hw1 has left open
  led         \* history: what the link has led to since its readlink

procVars == <<status, exe, mine, fds, deleted>>
scanVars == <<stage, at, alive, command, hash, file_list, fd, link, node, lines, printed>>
mainVars == <<left, held>>
vars == <<procVars, scanVars, mainVars, led>>

Stage == {"comm", "commread", "user", "link", "stat", "lstat", "maps", "mapsread", "fd",
          "fdread", "fdnext", "fdlink", "print", "done"}

Row == [fd : Special \cup {"mem", "DEL", "NOFD", Empty} \cup FD, mode : Mode, type : Type,
        node : File \cup {NoFile}, name : File \cup {Denied}]

(* The values of the process and of the scan: only what readlink returned  *)
(* becomes a name.                                                         *)
TypeOK ==
  /\ status \in {"live", "zombie", "gone"}
  /\ exe \in Exe \cup {NoFile} /\ mine \in BOOLEAN
  /\ fds \in [FD -> Opening \cup {Closed}]
  /\ deleted \subseteq File
  /\ stage \in Stage /\ at \in Special \cup FD
  /\ alive \in BOOLEAN
  /\ command \in Exe \cup {NoFile}
  /\ hash \subseteq File
  /\ file_list \in Seq(Row)
  /\ fd \subseteq FD
  /\ link \in File \cup {NoFile} /\ node \in File \cup {NoFile}
  /\ lines \in Seq(File \cup {Anon})
  /\ printed \in Seq(Row)
  /\ left \in 0..(Procs - 1) /\ held \in 0..Limit

(* A process before the scan, and the start of the constructor. *)
FreshProcess ==
  {p \in [exe : Exe \cup {NoFile}, mine : BOOLEAN, fds : [FD -> Opening \cup {Closed}]] :
     p.exe = NoFile => \A n \in FD : p.fds[n] = Closed}

Init ==
  /\ \E p \in FreshProcess : exe = p.exe /\ mine = p.mine /\ fds = p.fds
  /\ status = "live" /\ deleted = {}
  /\ stage = "comm" /\ at = "cwd" /\ alive = TRUE /\ command = NoFile
  /\ hash = {} /\ file_list = <<>>
  /\ fd = {} /\ link = NoFile /\ node = NoFile /\ lines = <<>> /\ printed = <<>>
  /\ left = Procs - 1 /\ held = 0 /\ led = {}

-----------------------------------------------------------------------------
(* The process and the kernel. *)

(* exit closes the descriptors; the parent waits at some time or at once. *)
Die ==
  /\ \/ status = "live" /\ status' \in {"zombie", "gone"}
     \/ status = "zombie" /\ status' = "gone"
  /\ fds' = [n \in FD |-> Closed]
  /\ UNCHANGED <<exe, mine, deleted>>

(* execve, of a set-user-id program perhaps. *)
Exec ==
  /\ status = "live" /\ exe # NoFile
  /\ exe' \in Exe /\ mine' \in BOOLEAN
  /\ UNCHANGED <<status, fds, deleted>>

(* The number of a closed descriptor is used again. *)
Open ==
  /\ status = "live" /\ exe # NoFile
  /\ \E n \in FD, o \in Opening : fds[n] = Closed /\ fds' = [fds EXCEPT ![n] = o]
  /\ UNCHANGED <<status, exe, mine, deleted>>

Close ==
  /\ status = "live"
  /\ \E n \in FD : fds[n] # Closed /\ fds' = [fds EXCEPT ![n] = Closed]
  /\ UNCHANGED <<status, exe, mine, deleted>>

Unlink ==
  /\ \E f \in Unlinks : f \notin deleted /\ deleted' = deleted \cup {f}
  /\ UNCHANGED <<status, exe, mine, fds>>

(* Where link k of the process leads. *)
Target(k) == IF k = "txt" THEN exe ELSE IF k \in Special THEN Dir ELSE fds[k].file

(* What readlink or stat on it finds. *)
Lookup(k) ==
  CASE status = "gone" -> ENOENT
    [] status # "gone" /\ ~mine -> EACCES
    [] status = "zombie" /\ mine -> ENOENT
    [] OTHER -> IF Target(k) = NoFile THEN ENOENT ELSE Target(k)

-----------------------------------------------------------------------------
(* The scan. *)

(* The error path of every handler: those that follow return at once. *)
Dead == alive' = FALSE /\ stage' = "done"

Push(row) == file_list' = Append(file_list, row)

(* The order of a loop: the one sequence of the numbers in S, ascending. *)
Ascending(S) ==
  {p \in [1..Cardinality(S) -> S] : \A i, j \in 1..Cardinality(S) : i < j => p[i] < p[j]}

(* The file constructors: with stat, and with the fields given. *)
GivenRow(k, name, inode, type) ==
  [fd |-> k, mode |-> Empty, type |-> type, node |-> inode, name |-> name]

(* set_fd_field: a number gets what its link is open for as its last      *)
(* letter; the number of a link with neither bit is not stored at all.     *)
StatRow ==
  LET mode == IF at \in Special THEN Empty ELSE fds[at].mode
  IN  [fd |-> IF at \in FD /\ mode = Empty THEN Empty ELSE at, mode |-> mode,
       type |-> Kind[node], node |-> node, name |-> link]

(* open, fopen and opendir fail without a descriptor. *)
Full == held = Limit

(* set_command: the open of comm ... *)
CommOpen ==
  /\ stage = "comm"
  /\ \/ (status = "gone" \/ Full) /\ Dead
     \/ status # "gone" /\ ~Full /\ stage' = "commread" /\ UNCHANGED alive
  /\ UNCHANGED <<procVars, at, command, hash, file_list, fd, link, node, lines, printed, mainVars>>

(* Mutant: comm is not closed. *)
CommReadOpen ==
  /\ stage = "commread"
  /\ command' = exe /\ stage' = "user" /\ held' = held + 1
  /\ UNCHANGED <<procVars, at, alive, hash, file_list, fd, link, node, lines, printed, left>>

(* ... and the read, whose failure leaves it open; then set_pid. *)
CommRead ==
  /\ stage = "commread"
  /\ \/ status = "gone" /\ Dead /\ held' = held + 1 /\ UNCHANGED command
     \/ /\ status # "gone"
        /\ command' = exe /\ stage' = "user" /\ UNCHANGED <<alive, held>>
  /\ UNCHANGED <<procVars, at, hash, file_list, fd, link, node, lines, printed, left>>

set_user_name ==
  /\ stage = "user"
  /\ \/ status = "gone" /\ Dead
     \/ status # "gone" /\ stage' = "link" /\ UNCHANGED alive
  /\ UNCHANGED <<procVars, at, command, hash, file_list, fd, link, node, lines, printed, mainVars>>

(* The loop of handle_special_files: cwd, rtd, txt. *)
NextSpecial ==
  /\ stage' = IF at = "txt" THEN "maps" ELSE "link"
  /\ at' = CASE at = "cwd" -> "rtd" [] OTHER -> "txt"

(* Mutant: a link that cannot be read is skipped. *)
SpecialLinkSkip ==
  /\ stage = "link"
  /\ \/ Lookup(at) \notin File /\ NextSpecial /\ UNCHANGED link
     \/ Lookup(at) \in File /\ link' = Lookup(at) /\ stage' = "stat" /\ UNCHANGED at
  /\ UNCHANGED <<procVars, alive, command, hash, file_list, fd, node, lines, printed, mainVars>>

(* handle_special_files: readlink. *)
SpecialLink ==
  /\ stage = "link"
  /\ \/ /\ Lookup(at) = EACCES
        /\ Push(GivenRow(at, Denied, NoFile, "unknown"))
        /\ NextSpecial
        /\ UNCHANGED <<alive, link>>
     \/ /\ Lookup(at) = ENOENT
        /\ Dead
        /\ UNCHANGED <<at, link, file_list>>
     \/ /\ Lookup(at) \in File
        /\ link' = Lookup(at) /\ stage' = "stat"
        /\ UNCHANGED <<at, alive, file_list>>
  /\ UNCHANGED <<procVars, command, hash, fd, node, lines, printed, mainVars>>

(* The two ends of a file constructor, for both of its callers: a failure  *)
(* of stat or lstat throws, which ends the scan or skips the descriptor.   *)
Throw ==
  /\ link' = NoFile /\ node' = NoFile
  /\ IF at \in Special THEN Dead ELSE stage' = "fdnext" /\ UNCHANGED alive
  /\ UNCHANGED <<at, file_list, hash>>

Listed ==
  /\ link' = NoFile /\ node' = NoFile
  /\ IF at \in Special THEN NextSpecial ELSE stage' = "fdnext" /\ UNCHANGED at
  /\ UNCHANGED alive

Stat ==
  /\ stage = "stat"
  /\ \/ Lookup(at) \notin File /\ Throw
     \/ /\ Lookup(at) \in File
        /\ node' = Lookup(at) /\ stage' = "lstat"
        /\ UNCHANGED <<at, alive, hash, file_list, link>>
  /\ UNCHANGED <<procVars, command, fd, lines, printed, mainVars>>

(* lstat does not follow the link: cwd, root and exe are there as long as  *)
(* the process is, a descriptor only while it may be looked up.            *)
LinkExists == IF at \in Special THEN status # "gone" ELSE Lookup(at) \in File

(* Mutant: the name is not remembered. *)
LstatNoHash ==
  /\ stage = "lstat"
  /\ \/ ~LinkExists /\ Throw
     \/ LinkExists /\ Push(StatRow) /\ UNCHANGED hash /\ Listed
  /\ UNCHANGED <<procVars, command, fd, lines, printed, mainVars>>

Lstat ==
  /\ stage = "lstat"
  /\ \/ ~LinkExists /\ Throw
     \/ LinkExists /\ Push(StatRow) /\ hash' = hash \cup {link} /\ Listed
  /\ UNCHANGED <<procVars, command, fd, lines, printed, mainVars>>

(* handle_memory_maps: fopen; the file of a zombie is empty. *)
MapsOpen ==
  /\ stage = "maps"
  /\ \/ (status = "gone" \/ Full) /\ Dead /\ UNCHANGED lines
     \/ status # "gone" /\ ~mine /\ ~Full /\ stage' = "fd" /\ UNCHANGED <<alive, lines>>
     \/ /\ status # "gone" /\ mine /\ ~Full
        /\ lines' = IF status = "live" /\ exe # NoFile THEN MapLines[exe] ELSE <<>>
        /\ stage' = "mapsread" /\ UNCHANGED alive
  /\ UNCHANGED <<procVars, at, command, hash, file_list, fd, link, node, printed, mainVars>>

(* The lines among the first n that get a row: those with an inode whose   *)
(* file is not remembered, each at its first line.                         *)
NewLines(n) ==
  {i \in 1..n : /\ lines[i] # Anon /\ lines[i] \notin hash
                /\ \A j \in 1..(i - 1) : lines[j] # lines[i]}

(* The sixth word of a line is the path alone: the mark "(deleted)" of a   *)
(* removed file is the word after it.                                      *)
MemRow(f) == GivenRow(IF f \in SaysDeleted THEN "DEL" ELSE "mem", f, f, "REG")

(* All lines, or a first part of them when the process has ended or        *)
(* executed another program since the file was opened.                     *)
MapsRead ==
  /\ stage = "mapsread"
  /\ \E n \in 0..Len(lines) :
       /\ (status = "live" /\ exe # NoFile /\ lines = MapLines[exe]) => n = Len(lines)
       /\ \E p \in Ascending(NewLines(n)) :
            file_list' = file_list \o [i \in 1..Len(p) |-> MemRow(lines[p[i]])]
       /\ hash' = hash \cup {lines[i] : i \in NewLines(n)}
  /\ stage' = "fd" /\ lines' = <<>>
  /\ UNCHANGED <<procVars, at, alive, command, fd, link, node, printed, mainVars>>

(* handle_file_descriptors: opendir, without a closedir; a zombie's        *)
(* directory belongs to root.                                              *)
FdOpen ==
  /\ stage = "fd"
  /\ \/ (status = "gone" \/ Full) /\ Dead /\ UNCHANGED <<file_list, held>>
     \/ /\ ~Full /\ (status = "zombie" \/ (status = "live" /\ ~mine))
        /\ Push(GivenRow("NOFD", Denied, NoFile, Empty))
        /\ stage' = "print" /\ UNCHANGED <<alive, held>>
     \/ /\ ~Full /\ status # "gone" /\ mine
        /\ stage' = "fdread" /\ held' = held + 1 /\ UNCHANGED <<alive, file_list>>
  /\ UNCHANGED <<procVars, at, command, hash, fd, link, node, lines, printed, left>>

(* The entries of the directory, fetched with the first readdir. *)
FdRead ==
  /\ stage = "fdread"
  /\ fd' = {n \in FD : status = "live" /\ fds[n] # Closed}
  /\ stage' = "fdnext"
  /\ UNCHANGED <<procVars, at, alive, command, hash, file_list, link, node, lines, printed, mainVars>>

(* readdir: the next entry, or none. *)
FdNext ==
  /\ stage = "fdnext"
  /\ \/ fd = {} /\ stage' = "print" /\ UNCHANGED <<fd, at>>
     \/ \E n \in fd : at' = n /\ fd' = fd \ {n} /\ stage' = "fdlink"
  /\ UNCHANGED <<procVars, alive, command, hash, file_list, link, node, lines, printed, mainVars>>

(* Mutant: a descriptor that cannot be read is tried again. *)
FdLinkRetry ==
  /\ stage = "fdlink"
  /\ \/ Lookup(at) \notin File /\ UNCHANGED <<link, stage>>
     \/ Lookup(at) \in File /\ link' = Lookup(at) /\ stage' = "stat"
  /\ UNCHANGED <<procVars, at, alive, command, hash, file_list, fd, node, lines, printed, mainVars>>

(* Mutant: the result of readlink is not checked. *)
FdLinkUnchecked ==
  /\ stage = "fdlink"
  /\ link' = Lookup(at) /\ stage' = "stat"
  /\ UNCHANGED <<procVars, at, alive, command, hash, file_list, fd, node, lines, printed, mainVars>>

(* Mutant: when readlink fails, the buffer still holds the name of txt,    *)
(* which handle_special_files has left on the stack.                       *)
FdLinkStale ==
  /\ stage = "fdlink"
  /\ link' = (IF Lookup(at) \in File THEN Lookup(at) ELSE command) /\ stage' = "stat"
  /\ UNCHANGED <<procVars, at, alive, command, hash, file_list, fd, node, lines, printed, mainVars>>

(* Mutant: a descriptor that cannot be read ends the scan. *)
FdLinkDead ==
  /\ stage = "fdlink"
  /\ \/ Lookup(at) \notin File /\ Dead /\ UNCHANGED link
     \/ Lookup(at) \in File /\ link' = Lookup(at) /\ stage' = "stat" /\ UNCHANGED alive
  /\ UNCHANGED <<procVars, at, command, hash, file_list, fd, node, lines, printed, mainVars>>

(* readlink: a descriptor that cannot be read is skipped. *)
FdLink ==
  /\ stage = "fdlink"
  /\ \/ Lookup(at) \notin File /\ stage' = "fdnext" /\ UNCHANGED link
     \/ Lookup(at) \in File /\ link' = Lookup(at) /\ stage' = "stat"
  /\ UNCHANGED <<procVars, at, alive, command, hash, file_list, fd, node, lines, printed, mainVars>>

(* The rows that pass the filters, and the loop that prints them. *)
Shown ==
  {i \in 1..Len(file_list) : /\ command \in ShownCommand
                             /\ file_list[i].type \in ShownType
                             /\ file_list[i].name \in ShownName}

print_opening_files ==
  /\ stage = "print"
  /\ \E p \in Ascending(Shown) : printed' = [i \in 1..Len(p) |-> file_list[p[i]]]
  /\ stage' = "done"
  /\ UNCHANGED <<procVars, at, alive, command, hash, file_list, fd, link, node, lines, mainVars>>

(* main: the next number that readdir finds in /proc. *)
NextProcess ==
  /\ stage = "done" /\ left > 0
  /\ left' = left - 1
  /\ \E p \in FreshProcess : exe' = p.exe /\ mine' = p.mine /\ fds' = p.fds
  /\ status' = "live"
  /\ stage' = "comm" /\ at' = "cwd" /\ alive' = TRUE /\ command' = NoFile
  /\ hash' = {} /\ file_list' = <<>>
  /\ fd' = {} /\ link' = NoFile /\ node' = NoFile /\ lines' = <<>> /\ printed' = <<>>
  /\ UNCHANGED <<deleted, held>>

-----------------------------------------------------------------------------
(* What the process does after the scan does not matter. *)
Environment ==
  /\ stage # "done"
  /\ Die \/ Exec \/ Open \/ Close \/ Unlink
  /\ UNCHANGED <<scanVars, mainVars>>

Scan ==
  \/ CommOpen \/ CommRead \/ set_user_name
  \/ SpecialLink \/ Stat \/ Lstat
  \/ MapsOpen \/ MapsRead
  \/ FdOpen \/ FdRead \/ FdNext \/ FdLink
  \/ print_opening_files \/ NextProcess

(* What link at leads to. *)
Lead == IF at \in FD THEN fds[at] ELSE [file |-> Target(at), mode |-> Empty]

(* The history: it begins with readlink and ends with the file constructor.*)
Follow ==
  led' = IF stage' \notin {"stat", "lstat"} THEN {}
         ELSE (IF stage \in {"stat", "lstat"} THEN led ELSE {}) \cup ({Lead} \ {Closed})'

Done == stage = "done" /\ left = 0 /\ UNCHANGED vars

Next == ((Environment \/ Scan) /\ Follow) \/ Done

Spec == Init /\ [][Next]_vars

(* hw1 is scheduled; the process it looks at may do what it likes. *)
FairSpec == Spec /\ WF_vars(Scan /\ Follow)

-----------------------------------------------------------------------------
(* Properties. *)

RowsOf(k) == {i \in 1..Len(file_list) : file_list[i].fd = k}

(* A process that gets as far as its descriptors is listed with cwd, rtd   *)
(* and txt, each once: a process that ends earlier is dropped as a whole,  *)
(* never shown in part (the alive flag of every handler).                  *)
SpecialComplete ==
  (alive /\ stage \notin {"comm", "commread", "user", "link", "stat", "lstat"}) =>
    \A k \in Special : Cardinality(RowsOf(k)) = 1

(* A mapped file is listed once, and not at all when it is already listed  *)
(* as cwd, rtd or txt, whatever the number of its mappings.                *)
MappedOnce ==
  \A i, j \in 1..Len(file_list) :
    (file_list[j].fd \in {"mem", "DEL"} /\ i < j) => file_list[i].name # file_list[j].name

RowStep ==
  (stage \in {"stat", "lstat"} /\ file_list' # file_list) =>
    LET r == file_list'[Len(file_list')]
    IN  /\ r.name \in {o.file : o \in led} /\ r.node \in {o.file : o \in led}
        /\ at \in FD => r.mode \in {o.mode : o \in led}

(* A row shows only what its link has led to between readlink and lstat,   *)
(* although the process may close and open descriptors of the same number  *)
(* or execute another program between the three calls: name, inode and     *)
(* mode are those of one opening when there was only one, and a descriptor *)
(* that is closed at one of the calls makes no row.                        *)
RowShowsTarget == [][RowStep]_vars

DropStep ==
  (alive /\ ~alive') => status # "live" \/ ~mine \/ exe = NoFile \/ held = Limit

(* "list all the files opened by processes running in the system": a       *)
(* process is dropped only when it has ended, may not be read (any more),  *)
(* is a thread of the kernel, or hw1 has no descriptor left; one that goes *)
(* on opening and closing files under the scan is listed.                  *)
ReadableIsListed == [][DropStep]_vars

(* A process leaves at most one descriptor open in hw1, the directory of   *)
(* its descriptors or a comm that could not be read, so that no process    *)
(* within the limit is lost.                                               *)
OneHeldPerProcess == held <= Procs - left

MapsRowsMarked ==
  (stage = "mapsread" /\ stage' = "fd") =>
    \A i \in (Len(file_list) + 1)..Len(file_list') :
      file_list'[i].name \in deleted => file_list'[i].fd = "DEL"

(* "DEL: indicate a memory-mapped file has been deleted" in the            *)
(* assignment: a mapped file that is removed when the maps are read is     *)
(* listed as DEL by handle_memory_maps.                                    *)
DeletedIsDEL == [][MapsRowsMarked]_vars

(* The listing ends, however the processes change meanwhile. *)
ScanEnds == <>(stage = "done" /\ left = 0)

=============================================================================
