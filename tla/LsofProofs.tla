----------------------------- MODULE LsofProofs -----------------------------
(***************************************************************************)
(* The listing of hw1, for any files, any memory maps, any number of       *)
(* descriptors and of processes, and whatever the processes do meanwhile.  *)
(***************************************************************************)
EXTENDS Lsof, SequenceTheorems, FiniteSetTheorems, TLAPS

(* The part of the scan in which cwd, rtd and txt are not all listed yet.  *)
Early ==
  \/ stage \in {"comm", "commread", "user", "link"}
  \/ stage \in {"stat", "lstat"} /\ at \in Special

(* The part in which the process has left no descriptor open. *)
NoneHeld == Early \/ stage \in {"maps", "mapsread", "fd"}

(* Which link is read where, and what the calls before have found. *)
LinkInv ==
  /\ stage \in {"comm", "commread", "user"} => at = "cwd"
  /\ stage = "link" => at \in Special
  /\ stage = "fdlink" => at \in FD
  /\ stage \in {"stat", "lstat"} => link \in File
  /\ stage = "lstat" => node \in File

(* What hw1 has left open: one descriptor for each process before this     *)
(* one at most, and one for this one after its last open.                  *)
HeldInv ==
  /\ stage = "commread" => held < Limit
  /\ NoneHeld => held <= Procs - left - 1
  /\ held <= Procs - left

(* How many of cwd, rtd and txt are listed when link a is read. *)
Pos(a) == IF a = "cwd" THEN 0 ELSE IF a = "rtd" THEN 1 ELSE 2

(* The rows begin with cwd, rtd, txt, as far as the scan has come, and no  *)
(* other row has one of these names.                                       *)
SpecialRow(i, k) ==
  /\ i = 1 => k = "cwd"
  /\ i = 2 => k = "rtd"
  /\ i = 3 => k = "txt"
  /\ i > 3 => k \notin Special

OrderInv ==
  alive =>
    /\ Early => Len(file_list) = Pos(at)
    /\ ~Early => Len(file_list) >= 3
    /\ \A i \in 1..Len(file_list) : SpecialRow(i, file_list[i].fd)

(* Every name that is listed is remembered. *)
HashInv ==
  /\ \A i \in 1..Len(file_list) : file_list[i].name \in hash \cup {Denied}
  /\ MappedOnce

(* Between readlink and lstat: the name and the inode are those of files   *)
(* the link has led to, and it leads to one of these or nowhere.           *)
LedInv ==
  /\ stage \in {"stat", "lstat"} => link \in {o.file : o \in led} /\ Lead \in led \cup {Closed}
  /\ stage = "lstat" => node \in {o.file : o \in led}

CoreInv == TypeOK /\ LinkInv /\ HeldInv /\ OrderInv /\ HashInv
Inv == CoreInv /\ LedInv

-----------------------------------------------------------------------------
(* Links, rows and loops. *)

LEMMA EmptyString == Empty \notin Special /\ Empty \notin {"mem", "DEL", "NOFD"}
  BY Zenon DEF Empty, Special

LEMMA NotFiles ==
  /\ Dir \in File /\ Exe \subseteq File /\ Data \subseteq File
  /\ NoFile \notin File /\ EACCES \notin File /\ ENOENT \notin File /\ Denied \notin File
  /\ EACCES # ENOENT
  /\ Special \cap FD = {} /\ "mem" \notin FD /\ "DEL" \notin FD /\ "NOFD" \notin FD
  /\ Empty \notin FD /\ Empty \notin Special /\ Empty # "mem" /\ Empty # "DEL"
  /\ "mem" \notin Special /\ "DEL" \notin Special /\ "NOFD" \notin Special
  BY LsofAssumption, EmptyString DEF File, NoFile, EACCES, ENOENT, Denied, Special

(* readlink and stat find the target or fail, and they fail for a readable *)
(* process that goes on only where the link has no target.                 *)
LEMMA LookupFacts ==
  ASSUME TypeOK, NEW n \in Special \cup FD
  PROVE  /\ Lookup(n) \in File => Lookup(n) = Target(n)
         /\ Lookup(n) \notin File => Lookup(n) \in {EACCES, ENOENT}
         /\ n \in {"cwd", "rtd"} => Target(n) = Dir
         /\ n \in FD => Target(n) = fds[n].file
         /\ (Lookup(n) = ENOENT /\ status = "live" /\ mine) => Target(n) = NoFile
         /\ (Lookup(n) = EACCES) => ~mine
  <1>1. Target(n) \in File \cup {NoFile}
    <2>1. CASE n = "txt"
      BY <2>1, NotFiles DEF Target, TypeOK
    <2>2. CASE n # "txt" /\ n \in Special
      BY <2>2, NotFiles DEF Target
    <2>3. CASE n \notin Special
      <3>1. fds[n].file \in Data \cup {NoFile}
        BY <2>3, LsofAssumption DEF TypeOK, Closed
      <3> QED BY <2>3, <3>1, NotFiles DEF Target, Special
    <2> QED BY <2>1, <2>2, <2>3
  <1>2. (n \in {"cwd", "rtd"} => Target(n) = Dir) /\ (n \in FD => Target(n) = fds[n].file)
    BY NotFiles DEF Target, Special
  <1>3. CASE status = "gone"
    <2>1. Lookup(n) = ENOENT
      BY <1>3 DEF Lookup
    <2> QED BY <1>2, <1>3, <2>1, NotFiles
  <1>4. CASE status # "gone" /\ ~mine
    <2>1. Lookup(n) = EACCES
      BY <1>4 DEF Lookup
    <2> QED BY <1>2, <1>4, <2>1, NotFiles
  <1>5. CASE status = "zombie" /\ mine
    <2>1. Lookup(n) = ENOENT
      BY <1>5 DEF Lookup
    <2> QED BY <1>2, <1>5, <2>1, NotFiles
  <1>6. CASE status = "live" /\ mine
    <2>1. Lookup(n) = IF Target(n) = NoFile THEN ENOENT ELSE Target(n)
      BY <1>6 DEF Lookup
    <2> QED BY <1>1, <1>2, <1>6, <2>1, NotFiles
  <1> QED BY <1>3, <1>4, <1>5, <1>6 DEF TypeOK

(* The file that is found is one the link leads to. *)
LEMMA FoundFacts ==
  ASSUME TypeOK, Lookup(at) \in File
  PROVE  Lead # Closed /\ Lookup(at) = Lead.file
  <1>1. at \in Special \cup FD
    BY DEF TypeOK
  <1>2. Lookup(at) = Target(at) /\ (at \in FD => Target(at) = fds[at].file)
    BY <1>1, LookupFacts
  <1>3. Lookup(at) = Lead.file
    BY <1>2 DEF Lead
  <1> QED BY <1>3, NotFiles DEF Closed

LEMMA NextSpecialFacts ==
  ASSUME at \in Special, NextSpecial
  PROVE  /\ at = "cwd" => at' = "rtd" /\ stage' = "link"
         /\ at = "rtd" => at' = "txt" /\ stage' = "link"
         /\ at = "txt" => at' = "txt" /\ stage' = "maps"
  <1>1. at = "cwd" => at' = "rtd"
    BY DEF NextSpecial
  <1>2. at # "cwd" => at' = "txt"
    BY DEF NextSpecial
  <1> QED BY <1>1, <1>2 DEF NextSpecial, Special

LEMMA AddRow ==
  ASSUME file_list \in Seq(Row), NEW r \in Row, Push(r)
  PROVE  /\ file_list' \in Seq(Row)
         /\ Len(file_list) \in Nat
         /\ Len(file_list') = Len(file_list) + 1
         /\ \A i \in 1..Len(file_list) : file_list'[i] = file_list[i]
         /\ file_list'[Len(file_list) + 1] = r
         /\ \A i \in 1..Len(file_list') : i \in 1..Len(file_list) \/ i = Len(file_list) + 1
  <1>1. Len(file_list) \in Nat
    BY LenProperties
  <1>2. /\ file_list' \in Seq(Row)
        /\ Len(file_list') = Len(file_list) + 1
        /\ \A i \in 1..Len(file_list) : file_list'[i] = file_list[i]
        /\ file_list'[Len(file_list) + 1] = r
    BY AppendProperties DEF Push
  <1> QED BY <1>1, <1>2

(* A row that is not of a mapped file, and whose name is remembered. *)
LEMMA AddRowHash ==
  ASSUME file_list \in Seq(Row), HashInv, NEW r \in Row, Push(r),
         r.fd \notin {"mem", "DEL"}, hash \subseteq hash', r.name \in hash' \cup {Denied}
  PROVE  HashInv'
  <1>1. /\ Len(file_list) \in Nat
        /\ Len(file_list') = Len(file_list) + 1
        /\ \A i \in 1..Len(file_list) : file_list'[i] = file_list[i]
        /\ file_list'[Len(file_list) + 1] = r
        /\ \A i \in 1..Len(file_list') : i \in 1..Len(file_list) \/ i = Len(file_list) + 1
    BY AddRow
  <1>2. \A i \in 1..Len(file_list') : file_list'[i].name \in hash' \cup {Denied}
    BY <1>1 DEF HashInv
  <1>3. MappedOnce'
    <2> SUFFICES ASSUME NEW i \in 1..Len(file_list'), NEW j \in 1..Len(file_list'),
                        file_list'[j].fd \in {"mem", "DEL"}, i < j
                 PROVE  file_list'[i].name # file_list'[j].name
      BY DEF MappedOnce
    <2>1. j \in 1..Len(file_list)
      BY <1>1
    <2>2. i \in 1..Len(file_list)
      BY <1>1, <2>1
    <2> QED BY <1>1, <2>1, <2>2 DEF HashInv, MappedOnce
  <1> QED BY <1>2, <1>3 DEF HashInv

(* The rows a loop prints or adds, in its order. *)
LEMMA AscendingFacts ==
  ASSUME NEW n \in Nat, NEW S \in SUBSET (1..n), NEW p \in Ascending(S)
  PROVE  /\ Len(p) \in Nat
         /\ p \in [1..Len(p) -> S]
         /\ \A i, j \in 1..Len(p) : i < j => p[i] < p[j]
  <1>1. IsFiniteSet(1..n)
    BY FS_Interval
  <1>2. Cardinality(S) \in Nat
    BY <1>1, FS_Subset, FS_CardinalityType
  <1>3. /\ p \in [1..Cardinality(S) -> S]
        /\ \A i, j \in 1..Cardinality(S) : i < j => p[i] < p[j]
    BY DEF Ascending
  <1>4. Len(p) = Cardinality(S)
    BY <1>2, <1>3
  <1> QED BY <1>2, <1>3, <1>4

-----------------------------------------------------------------------------
(* The processes: what they do leaves the scan alone. *)

LEMMA EnvironmentStep == Inv /\ Environment /\ Follow => Inv'
  <1> SUFFICES ASSUME CoreInv, LedInv, Environment, Follow PROVE Inv'
    BY DEF Inv
  <1>0. TypeOK
    BY DEF CoreInv
  <1>1. UNCHANGED <<scanVars, mainVars>>
    BY DEF Environment
  <1>2. /\ status' \in {"live", "zombie", "gone"} /\ exe' \in Exe \cup {NoFile}
        /\ mine' \in BOOLEAN /\ deleted' \subseteq File
    BY <1>0, LsofAssumption DEF Environment, Die, Exec, Open, Close, Unlink, TypeOK
  <1>3. fds' \in [FD -> Opening \cup {Closed}]
    <2>1. CASE Die \/ Exec \/ Unlink
      BY <1>0, <2>1 DEF Die, Exec, Unlink, TypeOK
    <2>2. CASE Open \/ Close
      BY <1>0, <2>2 DEF Open, Close, TypeOK
    <2> QED BY <2>1, <2>2 DEF Environment
  <1>4. CoreInv'
    BY <1>1, <1>2, <1>3
       DEF CoreInv, TypeOK, LinkInv, HeldInv, NoneHeld, OrderInv, Early, HashInv, MappedOnce,
           scanVars, mainVars
  <1>5. LedInv'
    <2> SUFFICES ASSUME stage' \in {"stat", "lstat"}
                 PROVE  LedInv'
      BY DEF LedInv
    <2>1. led' = led \cup ({Lead} \ {Closed})'
      BY <1>1 DEF Follow, scanVars
    <2>2. Lead' \in led' \cup {Closed'}
      BY <2>1
    <2> QED BY <1>1, <2>1, <2>2 DEF LedInv, scanVars
  <1> QED BY <1>4, <1>5 DEF Inv

-----------------------------------------------------------------------------
(* The scan. *)

(* Calls that add no row and are not about to stat. *)
LEMMA QuietStep ==
  ASSUME Inv, UNCHANGED <<procVars, hash, file_list>>, TypeOK', LinkInv', HeldInv',
         alive' => alive /\ (Early' => Early /\ at' = at) /\ (~Early' => ~Early),
         stage' \notin {"stat", "lstat"}
  PROVE  Inv'
  <1>1. OrderInv'
    BY DEF Inv, CoreInv, OrderInv
  <1>2. HashInv'
    BY DEF Inv, CoreInv, HashInv, MappedOnce
  <1>3. LedInv'
    BY DEF LedInv
  <1> QED BY <1>1, <1>2, <1>3 DEF Inv, CoreInv

(* The handlers before the links, and a handler that fails. *)
LEMMA CommStep == Inv /\ (CommOpen \/ CommRead \/ set_user_name) => Inv'
  <1> SUFFICES ASSUME Inv, CommOpen \/ CommRead \/ set_user_name PROVE Inv'
    OBVIOUS
  <1>0. TypeOK /\ LinkInv /\ HeldInv
    BY DEF Inv, CoreInv
  <1>1. /\ UNCHANGED <<procVars, hash, file_list, at, fd, link, node, lines, printed, left>>
        /\ at = "cwd" /\ stage \in {"comm", "commread", "user"}
    BY <1>0 DEF CommOpen, CommRead, set_user_name, LinkInv, mainVars
  <1>2. \/ alive' = FALSE /\ stage' = "done" /\ command' = command
           /\ (held' = held \/ (stage = "commread" /\ held' = held + 1))
        \/ alive' = alive /\ stage' \in {"commread", "user", "link"} /\ command' \in {command, exe}
           /\ held' = held /\ (stage' = "commread" => held # Limit)
    BY DEF CommOpen, CommRead, set_user_name, Dead, Full, mainVars
  <1>3. held \in Nat /\ held <= Limit /\ left \in Nat /\ Limit \in Nat /\ Procs \in Nat
    BY <1>0, LsofAssumption DEF TypeOK
  <1>4. TypeOK'
    <2>1. held' \in 0..Limit
      BY <1>0, <1>2, <1>3 DEF HeldInv
    <2>2. alive' \in BOOLEAN /\ stage' \in Stage /\ command' \in Exe \cup {NoFile}
      BY <1>0, <1>2 DEF TypeOK, Stage
    <2> QED BY <1>0, <1>1, <2>1, <2>2 DEF TypeOK, procVars
  <1>5. LinkInv'
    BY <1>0, <1>1, <1>2 DEF LinkInv, Special
  <1>6. HeldInv'
    BY <1>0, <1>1, <1>2, <1>3 DEF HeldInv, NoneHeld, Early
  <1>7. Early /\ (alive' => alive /\ Early')
    BY <1>1, <1>2 DEF Early
  <1>8. stage' \notin {"stat", "lstat"}
    BY <1>2
  <1> QED BY <1>1, <1>4, <1>5, <1>6, <1>7, <1>8, QuietStep

(* readlink finds a file: it is what stat is called for next. *)
LEMMA FoundLink ==
  ASSUME Inv, stage \in {"link", "fdlink"}, Lookup(at) \in File, link' = Lookup(at), stage' = "stat",
         UNCHANGED <<procVars, at, alive, command, hash, file_list, fd, node, lines, printed, mainVars>>,
         Follow
  PROVE  Inv'
  <1>0. TypeOK /\ LinkInv /\ HeldInv /\ OrderInv /\ HashInv
    BY DEF Inv, CoreInv
  <1>1. TypeOK'
    BY <1>0 DEF TypeOK, Stage, procVars, mainVars
  <1>2. LinkInv'
    BY <1>0 DEF LinkInv
  <1>3. Early' <=> Early
    BY <1>0, NotFiles DEF Early, LinkInv
  <1>4. HeldInv' /\ OrderInv'
    BY <1>0, <1>3 DEF HeldInv, NoneHeld, OrderInv, mainVars
  <1>5. HashInv'
    BY <1>0 DEF HashInv, MappedOnce
  <1>6. LedInv'
    <2>1. led' = {Lead} \ {Closed} /\ Lead' = Lead
      BY DEF Follow, Lead, Target, procVars
    <2>2. Lead # Closed /\ link' = Lead.file
      BY <1>0, FoundFacts
    <2> QED BY <2>1, <2>2 DEF LedInv
  <1> QED BY <1>1, <1>2, <1>4, <1>5, <1>6 DEF Inv, CoreInv

(* The row of a special file is the one that comes next. *)
LEMMA AddSpecial ==
  ASSUME file_list \in Seq(Row), OrderInv, Early, at \in Special, NextSpecial, alive' = alive,
         NEW r \in Row, r.fd = at, Push(r)
  PROVE  OrderInv'
  <1>1. /\ Len(file_list) \in Nat
        /\ Len(file_list') = Len(file_list) + 1
        /\ \A i \in 1..Len(file_list) : file_list'[i] = file_list[i]
        /\ file_list'[Len(file_list) + 1] = r
        /\ \A i \in 1..Len(file_list') : i \in 1..Len(file_list) \/ i = Len(file_list) + 1
    BY AddRow
  <1> SUFFICES ASSUME alive'
               PROVE  /\ Early' => Len(file_list') = Pos(at')
                      /\ ~Early' => Len(file_list') >= 3
                      /\ \A i \in 1..Len(file_list') : SpecialRow(i, file_list'[i].fd)
    BY DEF OrderInv
  <1>2. /\ Len(file_list) = Pos(at)
        /\ \A i \in 1..Len(file_list) : SpecialRow(i, file_list[i].fd)
    BY DEF OrderInv
  <1>3. Early' <=> at # "txt"
    BY NextSpecialFacts DEF Early, Special
  <1>4. at # "txt" => Pos(at') = Pos(at) + 1
    BY NextSpecialFacts DEF Pos, Special
  <1>5. at = "txt" => Pos(at) = 2
    BY DEF Pos
  <1>6. SpecialRow(Pos(at) + 1, at)
    BY DEF SpecialRow, Pos, Special
  <1>7. \A i \in 1..Len(file_list') : SpecialRow(i, file_list'[i].fd)
    BY <1>1, <1>2, <1>6
  <1> QED BY <1>1, <1>2, <1>3, <1>4, <1>5, <1>7

(* Any other row comes after them. *)
LEMMA AddOther ==
  ASSUME file_list \in Seq(Row), OrderInv, ~Early, ~Early', alive' = alive,
         NEW r \in Row, r.fd \notin Special, Push(r)
  PROVE  OrderInv'
  <1>1. /\ Len(file_list) \in Nat
        /\ Len(file_list') = Len(file_list) + 1
        /\ \A i \in 1..Len(file_list) : file_list'[i] = file_list[i]
        /\ file_list'[Len(file_list) + 1] = r
        /\ \A i \in 1..Len(file_list') : i \in 1..Len(file_list) \/ i = Len(file_list) + 1
    BY AddRow
  <1> SUFFICES ASSUME alive'
               PROVE  /\ Len(file_list') >= 3
                      /\ \A i \in 1..Len(file_list') : SpecialRow(i, file_list'[i].fd)
    BY DEF OrderInv
  <1>2. /\ Len(file_list) >= 3
        /\ \A i \in 1..Len(file_list) : SpecialRow(i, file_list[i].fd)
    BY DEF OrderInv
  <1>3. SpecialRow(Len(file_list) + 1, r.fd)
    BY <1>1, <1>2 DEF SpecialRow
  <1> QED BY <1>1, <1>2, <1>3

LEMMA SpecialLinkStep == Inv /\ SpecialLink /\ Follow => Inv'
  <1> SUFFICES ASSUME Inv, SpecialLink, Follow PROVE Inv'
    OBVIOUS
  <1>0. TypeOK /\ LinkInv /\ HeldInv /\ OrderInv /\ HashInv
    BY DEF Inv, CoreInv
  <1>1. /\ stage = "link" /\ at \in Special /\ Early
        /\ UNCHANGED <<procVars, command, hash, fd, node, lines, printed, mainVars>>
    BY <1>0 DEF SpecialLink, LinkInv, Early
  <1>2. CASE Lookup(at) = EACCES
    <2> DEFINE r == GivenRow(at, Denied, NoFile, "unknown")
    <2>1. r \in Row /\ r.fd = at /\ r.name = Denied
      BY <1>1 DEF GivenRow, Row, Type, Mode
    <2>2. Push(r) /\ NextSpecial /\ UNCHANGED <<alive, link>>
      BY <1>2, NotFiles DEF SpecialLink
    <2> HIDE DEF r
    <2>3. file_list \in Seq(Row) /\ file_list' \in Seq(Row)
      BY <1>0, <2>1, <2>2, AddRow DEF TypeOK
    <2>4. at' \in Special /\ stage' \in {"link", "maps"}
      BY <1>1, <2>2, NextSpecialFacts DEF Special
    <2>5. TypeOK'
      BY <1>0, <1>1, <2>2, <2>3, <2>4 DEF TypeOK, Stage, procVars, mainVars
    <2>6. LinkInv'
      BY <2>4 DEF LinkInv
    <2>7. HeldInv'
      BY <1>0, <1>1, <2>4 DEF HeldInv, NoneHeld, Early, mainVars
    <2>8. OrderInv'
      BY <1>0, <1>1, <2>1, <2>2, <2>3, AddSpecial
    <2>9. HashInv'
      BY <1>0, <1>1, <2>1, <2>2, <2>3, AddRowHash, NotFiles
    <2>10. LedInv'
      BY <2>4 DEF LedInv
    <2> QED BY <2>5, <2>6, <2>7, <2>8, <2>9, <2>10 DEF Inv, CoreInv
  <1>3. CASE Lookup(at) = ENOENT
    <2>1. alive' = FALSE /\ stage' = "done" /\ UNCHANGED <<at, link, file_list>>
      BY <1>3, NotFiles DEF SpecialLink, Dead
    <2>2. TypeOK' /\ LinkInv'
      BY <1>0, <1>1, <2>1 DEF TypeOK, LinkInv, Stage, procVars, mainVars
    <2>3. HeldInv'
      BY <1>0, <1>1, <2>1 DEF HeldInv, NoneHeld, Early, mainVars
    <2> QED BY <1>1, <2>1, <2>2, <2>3, QuietStep
  <1>4. CASE Lookup(at) \in File
    <2>1. link' = Lookup(at) /\ stage' = "stat" /\ UNCHANGED <<at, alive, file_list>>
      BY <1>4, NotFiles DEF SpecialLink
    <2> QED BY <1>1, <1>4, <2>1, FoundLink
  <1> QED BY <1>2, <1>3, <1>4 DEF SpecialLink

(* A file constructor that throws, for a special file or a descriptor. *)
LEMMA ThrowStep ==
  ASSUME Inv, stage \in {"stat", "lstat"}, Throw,
         UNCHANGED <<procVars, command, fd, lines, printed, mainVars>>
  PROVE  Inv'
  <1>0. TypeOK /\ LinkInv /\ HeldInv
    BY DEF Inv, CoreInv
  <1>1. /\ link' = NoFile /\ node' = NoFile /\ UNCHANGED <<at, file_list, hash>>
        /\ at \in Special => alive' = FALSE /\ stage' = "done"
        /\ at \notin Special => stage' = "fdnext" /\ alive' = alive
    BY DEF Throw, Dead
  <1>2. TypeOK'
    BY <1>0, <1>1 DEF TypeOK, Stage, procVars, mainVars
  <1>3. LinkInv'
    BY <1>1 DEF LinkInv
  <1>4. HeldInv'
    BY <1>0, <1>1 DEF HeldInv, NoneHeld, Early, mainVars
  <1>5. alive' => alive /\ ~Early /\ ~Early'
    BY <1>1 DEF Early
  <1>6. stage' \notin {"stat", "lstat"}
    BY <1>1
  <1> QED BY <1>1, <1>2, <1>3, <1>4, <1>5, <1>6, QuietStep

LEMMA StatStep == Inv /\ Stat /\ Follow => Inv'
  <1> SUFFICES ASSUME Inv, Stat, Follow PROVE Inv'
    OBVIOUS
  <1>0. TypeOK /\ LinkInv /\ HeldInv /\ OrderInv /\ HashInv
    BY DEF Inv, CoreInv
  <1>1. stage = "stat" /\ UNCHANGED <<procVars, command, fd, lines, printed, mainVars>>
    BY DEF Stat
  <1>2. CASE Lookup(at) \notin File
    BY <1>1, <1>2, ThrowStep DEF Stat
  <1>3. CASE Lookup(at) \in File
    <2>1. /\ node' = Lookup(at) /\ stage' = "lstat"
          /\ UNCHANGED <<at, alive, hash, file_list, link>>
      BY <1>3 DEF Stat
    <2>2. TypeOK' /\ LinkInv'
      BY <1>0, <1>1, <1>3, <2>1 DEF TypeOK, LinkInv, Stage, procVars, mainVars
    <2>3. HeldInv' /\ OrderInv'
      BY <1>0, <1>1, <2>1 DEF HeldInv, NoneHeld, Early, OrderInv, mainVars
    <2>4. HashInv'
      BY <1>0, <2>1 DEF HashInv, MappedOnce
    <2>5. LedInv'
      <3>1. led' = led \cup ({Lead} \ {Closed}) /\ Lead' = Lead
        BY <1>1, <2>1 DEF Follow, Lead, Target, procVars
      <3>2. Lead # Closed /\ node' = Lead.file
        BY <1>0, <1>3, <2>1, FoundFacts
      <3> QED BY <1>1, <2>1, <3>1, <3>2 DEF LedInv, Inv
    <2> QED BY <2>2, <2>3, <2>4, <2>5 DEF Inv, CoreInv
  <1> QED BY <1>2, <1>3

(* The row of a file constructor whose calls succeed. *)
LEMMA StatRowFacts ==
  ASSUME TypeOK, LinkInv, stage = "lstat"
  PROVE  /\ StatRow \in Row
         /\ StatRow.name = link /\ StatRow.node = node /\ StatRow.fd \in {at, Empty}
         /\ at \in Special => StatRow.fd = at
         /\ at \notin Special => StatRow.fd \notin Special
         /\ at \in FD => StatRow.mode = fds[at].mode
  <1> DEFINE mode == IF at \in Special THEN Empty ELSE fds[at].mode
             name == IF at \in FD /\ mode = Empty THEN Empty ELSE at
  <1>1. link \in File /\ node \in File /\ at \in Special \cup FD
    BY DEF LinkInv, TypeOK
  <1>2. Kind[node] \in Type
    BY <1>1, LsofAssumption
  <1>3. mode \in Mode
    <2>1. Empty \in Mode
      BY DEF Mode
    <2>2. CASE at \in FD
      BY <2>1, <2>2, LsofAssumption DEF TypeOK, Closed
    <2> QED BY <1>1, <2>1, <2>2
  <1>4. /\ name \in {at, Empty} /\ (at \in Special => name = at)
        /\ (at \notin Special => name \notin Special) /\ (at \in FD => mode = fds[at].mode)
    BY <1>1, NotFiles
  <1>5. StatRow = [fd |-> name, mode |-> mode, type |-> Kind[node], node |-> node, name |-> link]
    BY DEF StatRow
  <1> HIDE DEF mode, name
  <1> QED BY <1>1, <1>2, <1>3, <1>4, <1>5 DEF Row

LEMMA LstatStep == Inv /\ Lstat => Inv'
  <1> SUFFICES ASSUME Inv, Lstat PROVE Inv'
    OBVIOUS
  <1>0. TypeOK /\ LinkInv /\ HeldInv /\ OrderInv /\ HashInv
    BY DEF Inv, CoreInv
  <1>1. stage = "lstat" /\ UNCHANGED <<procVars, command, fd, lines, printed, mainVars>>
    BY DEF Lstat
  <1>2. CASE ~LinkExists
    BY <1>1, <1>2, ThrowStep DEF Lstat
  <1>3. CASE LinkExists
    <2>1. Push(StatRow) /\ hash' = hash \cup {link} /\ Listed
      BY <1>3 DEF Lstat
    <2>2. link \in File /\ node \in File /\ at \in Special \cup FD
      BY <1>0, <1>1 DEF LinkInv, TypeOK
    <2>3. /\ StatRow \in Row /\ StatRow.name = link /\ StatRow.fd \in {at, Empty}
          /\ at \in Special => StatRow.fd = at
          /\ at \notin Special => StatRow.fd \notin Special
      BY <1>0, <1>1, StatRowFacts
    <2>4. file_list \in Seq(Row) /\ file_list' \in Seq(Row)
      BY <1>0, <2>1, <2>3, AddRow DEF TypeOK
    <2>5. /\ link' = NoFile /\ node' = NoFile /\ alive' = alive
          /\ at \in Special => NextSpecial
          /\ at \notin Special => stage' = "fdnext" /\ at' = at
      BY <2>1 DEF Listed
    <2>6. /\ at \in Special => at' \in Special /\ stage' \in {"link", "maps"}
      BY <2>5, NextSpecialFacts DEF Special
    <2>7. TypeOK'
      BY <1>0, <1>1, <2>1, <2>2, <2>4, <2>5, <2>6 DEF TypeOK, Stage, procVars, mainVars
    <2>8. LinkInv'
      BY <2>5, <2>6 DEF LinkInv
    <2>9. HeldInv'
      BY <1>0, <1>1, <2>5, <2>6 DEF HeldInv, NoneHeld, Early, mainVars
    <2>10. OrderInv'
      <3>1. CASE at \in Special
        <4>1. Early
          BY <1>1, <3>1 DEF Early
        <4> QED BY <1>0, <2>1, <2>3, <2>4, <2>5, <3>1, <4>1, AddSpecial
      <3>2. CASE at \notin Special
        <4>1. ~Early /\ ~Early'
          BY <1>1, <2>5, <3>2 DEF Early
        <4> QED BY <1>0, <2>1, <2>3, <2>4, <2>5, <3>2, <4>1, AddOther
      <3> QED BY <3>1, <3>2
    <2>11. HashInv'
      <3>1. StatRow.fd \notin {"mem", "DEL"}
        BY <2>2, <2>3, NotFiles
      <3> QED BY <1>0, <2>1, <2>3, <2>4, <3>1, AddRowHash
    <2>12. LedInv'
      BY <2>5, <2>6 DEF LedInv
    <2> QED BY <2>7, <2>8, <2>9, <2>10, <2>11, <2>12 DEF Inv, CoreInv
  <1> QED BY <1>2, <1>3

LEMMA MapsOpenStep == Inv /\ MapsOpen => Inv'
  <1> SUFFICES ASSUME Inv, MapsOpen PROVE Inv'
    OBVIOUS
  <1>0. TypeOK /\ LinkInv /\ HeldInv
    BY DEF Inv, CoreInv
  <1>1. /\ stage = "maps"
        /\ UNCHANGED <<procVars, at, command, hash, file_list, fd, link, node, printed, mainVars>>
        /\ \/ alive' = FALSE /\ stage' = "done"
           \/ alive' = alive /\ stage' \in {"fd", "mapsread"}
    BY DEF MapsOpen, Dead
  <1>2. lines' \in Seq(File \cup {Anon})
    <2>1. <<>> \in Seq(File \cup {Anon})
      BY EmptySeq
    <2>2. exe # NoFile => MapLines[exe] \in Seq(File \cup {Anon})
      BY <1>0, LsofAssumption DEF TypeOK
    <2>3. lines \in Seq(File \cup {Anon})
      BY <1>0 DEF TypeOK
    <2> QED BY <2>1, <2>2, <2>3 DEF MapsOpen
  <1>3. TypeOK'
    BY <1>0, <1>1, <1>2 DEF TypeOK, Stage, procVars, mainVars
  <1>4. LinkInv' /\ HeldInv'
    BY <1>0, <1>1 DEF LinkInv, HeldInv, NoneHeld, Early, mainVars
  <1>5. ~Early /\ ~Early' /\ stage' \notin {"stat", "lstat"} /\ (alive' => alive)
    BY <1>1 DEF Early
  <1> QED BY <1>1, <1>3, <1>4, <1>5, QuietStep

(* The rows of the mapped files: each is of a file that is not remembered, *)
(* and no two are of the same file.                                        *)
LEMMA MapsReadStep == Inv /\ MapsRead => Inv'
  <1> SUFFICES ASSUME Inv, MapsRead PROVE Inv'
    OBVIOUS
  <1>0. TypeOK /\ LinkInv /\ HeldInv /\ OrderInv /\ HashInv
    BY DEF Inv, CoreInv
  <1>1. /\ stage = "mapsread" /\ stage' = "fd" /\ lines' = <<>>
        /\ UNCHANGED <<procVars, at, alive, command, fd, link, node, printed, mainVars>>
    BY DEF MapsRead
  <1>2. PICK n \in 0..Len(lines) :
          /\ \E p \in Ascending(NewLines(n)) :
               file_list' = file_list \o [i \in 1..Len(p) |-> MemRow(lines[p[i]])]
          /\ hash' = hash \cup {lines[i] : i \in NewLines(n)}
    BY DEF MapsRead
  <1>3. PICK p \in Ascending(NewLines(n)) :
          file_list' = file_list \o [i \in 1..Len(p) |-> MemRow(lines[p[i]])]
    BY <1>2
  <1>4. /\ Len(lines) \in Nat /\ n \in Nat /\ n <= Len(lines)
        /\ \A i \in 1..Len(lines) : lines[i] \in File \cup {Anon}
        /\ file_list \in Seq(Row) /\ Len(file_list) \in Nat
    BY <1>0, LenProperties, ElementOfSeq DEF TypeOK
  <1>5. NewLines(n) \in SUBSET (1..n)
    BY DEF NewLines
  <1>6. /\ Len(p) \in Nat
        /\ p \in [1..Len(p) -> NewLines(n)]
        /\ \A i, j \in 1..Len(p) : i < j => p[i] < p[j]
    BY <1>3, <1>4, <1>5, AscendingFacts
  <1>7. \A i \in NewLines(n) : /\ i \in 1..n /\ lines[i] \in File /\ lines[i] \notin hash
                               /\ \A j \in 1..(i - 1) : lines[j] # lines[i]
    BY <1>4 DEF NewLines
  <1>8. \A f \in File : /\ MemRow(f) \in Row
                        /\ MemRow(f).fd \in {"mem", "DEL"}
                        /\ MemRow(f).name = f /\ MemRow(f).node = f
    BY DEF MemRow, GivenRow, Row, Type, Mode
  <1> DEFINE new == [i \in 1..Len(p) |-> MemRow(lines[p[i]])]
  <1>9. \A i \in 1..Len(p) : lines[p[i]] \in File /\ lines[p[i]] \notin hash
    BY <1>6, <1>7
  <1>10. \A i, j \in 1..Len(p) : i < j => lines[p[i]] # lines[p[j]]
    <2> SUFFICES ASSUME NEW i \in 1..Len(p), NEW j \in 1..Len(p), i < j
                 PROVE  lines[p[i]] # lines[p[j]]
      OBVIOUS
    <2>1. p[i] \in NewLines(n) /\ p[j] \in NewLines(n) /\ p[i] < p[j]
      BY <1>6
    <2>2. p[i] \in 1..n /\ p[j] \in 1..n
      BY <1>5, <2>1
    <2>3. p[i] \in 1..(p[j] - 1)
      BY <1>4, <2>1, <2>2
    <2> QED BY <1>7, <2>1, <2>3
  <1>11. /\ new \in Seq(Row) /\ Len(new) = Len(p)
         /\ \A i \in 1..Len(p) : /\ new[i].fd \in {"mem", "DEL"}
                                 /\ new[i].name = lines[p[i]] /\ new[i].node = lines[p[i]]
    <2>1. \A i \in 1..Len(p) : new[i] = MemRow(lines[p[i]]) /\ new[i] \in Row
      BY <1>8, <1>9
    <2>2. new \in [1..Len(p) -> Row]
      BY <2>1
    <2>3. new \in Seq(Row) /\ Len(new) = Len(p)
      BY <1>6, <2>2
    <2> QED BY <1>8, <1>9, <2>1, <2>3
  <1>12. file_list' = file_list \o new
    BY <1>3
  <1> HIDE DEF new
  <1>13. /\ file_list' \in Seq(Row)
         /\ Len(file_list') = Len(file_list) + Len(p)
         /\ \A i \in 1..(Len(file_list) + Len(p)) :
              file_list'[i] = IF i <= Len(file_list) THEN file_list[i] ELSE new[i - Len(file_list)]
    <2>1. file_list \in Seq(Row) /\ new \in Seq(Row)
      BY <1>4, <1>11
    <2>2. /\ file_list \o new \in Seq(Row)
          /\ Len(file_list \o new) = Len(file_list) + Len(new)
          /\ \A i \in 1..(Len(file_list) + Len(new)) : (file_list \o new)[i] =
               IF i <= Len(file_list) THEN file_list[i] ELSE new[i - Len(file_list)]
      BY <2>1, ConcatProperties, Zenon
    <2>3. Len(new) = Len(p)
      BY <1>11
    <2> QED BY <1>12, <2>2, <2>3, Zenon
  <1>14. \A i \in 1..Len(file_list') :
           \/ i \in 1..Len(file_list) /\ file_list'[i] = file_list[i]
           \/ i - Len(file_list) \in 1..Len(p) /\ file_list'[i] = new[i - Len(file_list)]
    BY <1>4, <1>6, <1>13
  <1>15. \A i \in 1..Len(p) : new[i].name \in hash'
    BY <1>2, <1>6, <1>11
  <1>16. TypeOK'
    <2>1. <<>> \in Seq(File \cup {Anon})
      BY EmptySeq
    <2>2. hash' \subseteq File
      BY <1>0, <1>2, <1>7 DEF TypeOK
    <2> QED BY <1>0, <1>1, <1>13, <2>1, <2>2 DEF TypeOK, Stage, procVars, mainVars
  <1>17. LinkInv' /\ HeldInv'
    BY <1>0, <1>1 DEF LinkInv, HeldInv, NoneHeld, Early, mainVars
  <1>18. OrderInv'
    <2> SUFFICES ASSUME alive'
                 PROVE  /\ Len(file_list') >= 3
                        /\ \A i \in 1..Len(file_list') : SpecialRow(i, file_list'[i].fd)
      BY <1>1 DEF OrderInv, Early
    <2>1. /\ Len(file_list) >= 3
          /\ \A i \in 1..Len(file_list) : SpecialRow(i, file_list[i].fd)
      BY <1>0, <1>1 DEF OrderInv, Early
    <2>2. Len(file_list') >= 3
      BY <1>4, <1>6, <1>13, <2>1
    <2>3. ASSUME NEW i \in 1..Len(file_list') PROVE SpecialRow(i, file_list'[i].fd)
      <3>1. CASE i \in 1..Len(file_list) /\ file_list'[i] = file_list[i]
        BY <2>1, <3>1
      <3>2. CASE i - Len(file_list) \in 1..Len(p) /\ file_list'[i] = new[i - Len(file_list)]
        <4>1. file_list'[i].fd \in {"mem", "DEL"} /\ i > 3
          BY <1>4, <1>6, <1>11, <2>1, <2>3, <3>2
        <4> QED BY <2>3, <4>1, NotFiles DEF SpecialRow
      <3> QED BY <1>14, <2>3, <3>1, <3>2
    <2> QED BY <2>2, <2>3
  <1>19. HashInv'
    <2>1. \A i \in 1..Len(file_list') : file_list'[i].name \in hash' \cup {Denied}
      BY <1>0, <1>2, <1>14, <1>15 DEF HashInv
    <2>2. MappedOnce'
      <3> SUFFICES ASSUME NEW i \in 1..Len(file_list'), NEW j \in 1..Len(file_list'),
                          file_list'[j].fd \in {"mem", "DEL"}, i < j
                   PROVE  file_list'[i].name # file_list'[j].name
        BY DEF MappedOnce
      <3> DEFINE a == i - Len(file_list)
                 b == j - Len(file_list)
      <3>1. CASE j \in 1..Len(file_list)
        <4>1. i \in 1..Len(file_list)
          BY <1>4, <3>1
        <4>2. file_list'[i] = file_list[i] /\ file_list'[j] = file_list[j]
          BY <1>4, <1>6, <1>13, <3>1, <4>1
        <4> QED BY <1>0, <3>1, <4>1, <4>2 DEF HashInv, MappedOnce
      <3>2. CASE j \notin 1..Len(file_list)
        <4>1. b \in 1..Len(p) /\ file_list'[j] = new[b]
          BY <1>14, <3>2
        <4>2. file_list'[j].name \notin hash /\ file_list'[j].name # Denied
          BY <1>9, <1>11, <4>1, NotFiles
        <4>3. CASE i \in 1..Len(file_list)
          <5>1. file_list'[i] = file_list[i]
            BY <1>4, <1>6, <1>13, <4>3
          <5> QED BY <1>0, <4>2, <4>3, <5>1 DEF HashInv
        <4>4. CASE i \notin 1..Len(file_list)
          <5>1. a \in 1..Len(p) /\ file_list'[i] = new[a]
            BY <1>14, <4>4
          <5>2. a < b
            BY <1>4, <1>13, <1>6
          <5> QED BY <1>10, <1>11, <4>1, <5>1, <5>2
        <4> QED BY <4>3, <4>4
      <3> QED BY <3>1, <3>2
    <2> QED BY <2>1, <2>2 DEF HashInv
  <1>20. LedInv'
    BY <1>1 DEF LedInv
  <1> QED BY <1>16, <1>17, <1>18, <1>19, <1>20 DEF Inv, CoreInv

LEMMA FdOpenStep == Inv /\ FdOpen => Inv'
  <1> SUFFICES ASSUME Inv, FdOpen PROVE Inv'
    OBVIOUS
  <1>0. TypeOK /\ LinkInv /\ HeldInv /\ OrderInv /\ HashInv
    BY DEF Inv, CoreInv
  <1>1. /\ stage = "fd"
        /\ UNCHANGED <<procVars, at, command, hash, fd, link, node, lines, printed, left>>
    BY DEF FdOpen
  <1>2. held \in 0..Limit /\ left \in Nat /\ Procs \in Nat /\ Limit \in Nat
    BY <1>0, LsofAssumption DEF TypeOK
  <1>3. CASE file_list' = file_list
    <2>1. \/ alive' = FALSE /\ stage' = "done" /\ held' = held
          \/ alive' = alive /\ stage' = "fdread" /\ held # Limit /\ held' = held + 1
      <3>1. \A r \in Row : ~Push(r)
        <4> SUFFICES ASSUME NEW r \in Row, Push(r) PROVE FALSE
          OBVIOUS
        <4>1. file_list \in Seq(Row)
          BY <1>0 DEF TypeOK
        <4>2. Len(file_list') = Len(file_list) + 1 /\ Len(file_list) \in Nat
          BY <4>1, AddRow
        <4> QED BY <1>3, <4>2
      <3>2. GivenRow("NOFD", Denied, NoFile, Empty) \in Row
        BY DEF GivenRow, Row, Type, Mode
      <3> QED BY <3>1, <3>2 DEF FdOpen, Dead, Full
    <2>2. TypeOK'
      <3>1. held' \in 0..Limit
        BY <1>2, <2>1
      <3>2. stage' \in Stage /\ alive' \in BOOLEAN
        BY <1>0, <2>1 DEF TypeOK, Stage
      <3> QED BY <1>0, <1>1, <1>3, <3>1, <3>2 DEF TypeOK, procVars
    <2>3. LinkInv'
      BY <2>1 DEF LinkInv
    <2>4. HeldInv'
      BY <1>0, <1>1, <1>2, <2>1 DEF HeldInv, NoneHeld, Early
    <2>5. ~Early /\ ~Early' /\ stage' \notin {"stat", "lstat"} /\ (alive' => alive)
      BY <1>1, <2>1 DEF Early
    <2> QED BY <1>1, <1>3, <2>2, <2>3, <2>4, <2>5, QuietStep
  <1>4. CASE file_list' # file_list
    <2> DEFINE r == GivenRow("NOFD", Denied, NoFile, Empty)
    <2>1. r \in Row /\ r.fd = "NOFD" /\ r.name = Denied
      BY DEF GivenRow, Row, Type, Mode
    <2>2. Push(r) /\ stage' = "print" /\ UNCHANGED <<alive, held>>
      BY <1>4 DEF FdOpen
    <2> HIDE DEF r
    <2>3. file_list \in Seq(Row) /\ file_list' \in Seq(Row)
      BY <1>0, <2>1, <2>2, AddRow DEF TypeOK
    <2>4. TypeOK'
      BY <1>0, <1>1, <2>2, <2>3 DEF TypeOK, Stage, procVars
    <2>5. LinkInv' /\ HeldInv'
      BY <1>0, <1>1, <2>2 DEF LinkInv, HeldInv, NoneHeld, Early
    <2>6. ~Early /\ ~Early'
      BY <1>1, <2>2 DEF Early
    <2>7. OrderInv'
      BY <1>0, <2>1, <2>2, <2>3, <2>6, AddOther, NotFiles
    <2>8. HashInv'
      BY <1>0, <1>1, <2>1, <2>2, <2>3, AddRowHash
    <2>9. LedInv'
      BY <2>2 DEF LedInv
    <2> QED BY <2>4, <2>5, <2>7, <2>8, <2>9 DEF Inv, CoreInv
  <1> QED BY <1>3, <1>4

LEMMA FdStep == Inv /\ (FdRead \/ FdNext \/ FdLink) /\ Follow => Inv'
  <1> SUFFICES ASSUME Inv, FdRead \/ FdNext \/ FdLink, Follow PROVE Inv'
    OBVIOUS
  <1>0. TypeOK /\ LinkInv /\ HeldInv
    BY DEF Inv, CoreInv
  <1>1. CASE FdRead
    <2>1. TypeOK' /\ LinkInv' /\ HeldInv'
      BY <1>0, <1>1 DEF FdRead, TypeOK, Stage, LinkInv, HeldInv, NoneHeld, Early, procVars, mainVars
    <2> QED BY <1>1, <2>1, QuietStep DEF FdRead, Early
  <1>2. CASE FdNext
    <2>1. TypeOK' /\ LinkInv' /\ HeldInv'
      BY <1>0, <1>2 DEF FdNext, TypeOK, Stage, LinkInv, HeldInv, NoneHeld, Early, procVars, mainVars
    <2> QED BY <1>2, <2>1, QuietStep DEF FdNext, Early
  <1>3. CASE FdLink /\ Lookup(at) \in File
    BY <1>3, FoundLink DEF FdLink
  <1>4. CASE FdLink /\ Lookup(at) \notin File
    <2>1. TypeOK' /\ LinkInv' /\ HeldInv'
      BY <1>0, <1>4 DEF FdLink, TypeOK, Stage, LinkInv, HeldInv, NoneHeld, Early, procVars, mainVars
    <2> QED BY <1>4, <2>1, QuietStep DEF FdLink, Early
  <1> QED BY <1>1, <1>2, <1>3, <1>4

LEMMA PrintStep == Inv /\ print_opening_files => Inv'
  <1> SUFFICES ASSUME Inv, print_opening_files PROVE Inv'
    OBVIOUS
  <1>0. TypeOK /\ LinkInv /\ HeldInv
    BY DEF Inv, CoreInv
  <1>1. /\ stage = "print" /\ stage' = "done"
        /\ UNCHANGED <<procVars, at, alive, command, hash, file_list, fd, link, node, lines, mainVars>>
    BY DEF print_opening_files
  <1>2. PICK p \in Ascending(Shown) : printed' = [i \in 1..Len(p) |-> file_list[p[i]]]
    BY DEF print_opening_files
  <1>3. Len(file_list) \in Nat /\ \A i \in 1..Len(file_list) : file_list[i] \in Row
    BY <1>0, LenProperties, ElementOfSeq DEF TypeOK
  <1>4. Shown \in SUBSET (1..Len(file_list))
    BY DEF Shown
  <1>5. Len(p) \in Nat /\ p \in [1..Len(p) -> Shown]
    BY <1>2, <1>3, <1>4, AscendingFacts
  <1>6. printed' \in [1..Len(p) -> Row]
    BY <1>2, <1>3, <1>4, <1>5
  <1>7. printed' \in Seq(Row)
    BY <1>5, <1>6
  <1>8. TypeOK' /\ LinkInv' /\ HeldInv'
    BY <1>0, <1>1, <1>7 DEF TypeOK, Stage, LinkInv, HeldInv, NoneHeld, Early, procVars, mainVars
  <1>9. ~Early /\ ~Early'
    BY <1>1 DEF Early
  <1> QED BY <1>1, <1>8, <1>9, QuietStep

(* The constructor of the next process starts afresh. *)
LEMMA NextProcessStep == Inv /\ NextProcess => Inv'
  <1> SUFFICES ASSUME Inv, NextProcess PROVE Inv'
    OBVIOUS
  <1>0. TypeOK /\ HeldInv
    BY DEF Inv, CoreInv
  <1>1. PICK p \in FreshProcess : exe' = p.exe /\ mine' = p.mine /\ fds' = p.fds
    BY DEF NextProcess
  <1>2. exe' \in Exe \cup {NoFile} /\ mine' \in BOOLEAN /\ fds' \in [FD -> Opening \cup {Closed}]
    BY <1>1, NotFiles DEF FreshProcess
  <1>3. /\ stage' = "comm" /\ at' = "cwd" /\ left' = left - 1 /\ left > 0
        /\ file_list' = <<>> /\ hash' = {} /\ lines' = <<>> /\ printed' = <<>>
        /\ status' = "live" /\ alive' = TRUE /\ command' = NoFile
        /\ fd' = {} /\ link' = NoFile /\ node' = NoFile /\ UNCHANGED <<deleted, held>>
    BY DEF NextProcess
  <1>4. file_list' \in Seq(Row) /\ lines' \in Seq(File \cup {Anon}) /\ printed' \in Seq(Row)
        /\ Len(file_list') = 0
    BY <1>3, EmptySeq
  <1>5. held \in 0..Limit /\ left \in 0..(Procs - 1) /\ Procs \in Nat
    BY <1>0, LsofAssumption DEF TypeOK
  <1>6. TypeOK'
    BY <1>0, <1>2, <1>3, <1>4, <1>5 DEF TypeOK, Stage, Special
  <1>7. LinkInv' /\ HeldInv'
    BY <1>0, <1>3, <1>5 DEF LinkInv, HeldInv
  <1>8. OrderInv'
    BY <1>3, <1>4 DEF OrderInv, Early, Pos
  <1>9. HashInv' /\ LedInv'
    BY <1>3, <1>4 DEF HashInv, MappedOnce, LedInv
  <1> QED BY <1>6, <1>7, <1>8, <1>9 DEF Inv, CoreInv

LEMMA Initially == Init => Inv
  <1> SUFFICES ASSUME Init PROVE Inv
    OBVIOUS
  <1>1. PICK p \in FreshProcess : exe = p.exe /\ mine = p.mine /\ fds = p.fds
    BY DEF Init
  <1>2. exe \in Exe \cup {NoFile} /\ mine \in BOOLEAN /\ fds \in [FD -> Opening \cup {Closed}]
    BY <1>1, NotFiles DEF FreshProcess
  <1>3. /\ stage = "comm" /\ at = "cwd" /\ left = Procs - 1 /\ held = 0
        /\ file_list = <<>> /\ hash = {} /\ lines = <<>> /\ printed = <<>>
        /\ status = "live" /\ deleted = {} /\ alive = TRUE /\ command = NoFile
        /\ fd = {} /\ link = NoFile /\ node = NoFile
    BY DEF Init
  <1>4. file_list \in Seq(Row) /\ lines \in Seq(File \cup {Anon}) /\ printed \in Seq(Row)
        /\ Len(file_list) = 0
    BY <1>3, EmptySeq
  <1>5. left \in 0..(Procs - 1) /\ held \in 0..Limit /\ Procs \in Nat
    BY <1>3, LsofAssumption
  <1>6. TypeOK
    BY <1>2, <1>3, <1>4, <1>5 DEF TypeOK, Stage, Special
  <1>7. LinkInv /\ HeldInv
    BY <1>3, <1>5 DEF LinkInv, HeldInv
  <1>8. OrderInv
    BY <1>3, <1>4 DEF OrderInv, Early, Pos
  <1>9. HashInv /\ LedInv
    BY <1>3, <1>4 DEF HashInv, MappedOnce, LedInv
  <1> QED BY <1>6, <1>7, <1>8, <1>9 DEF Inv, CoreInv

LEMMA Step == Inv /\ [Next]_vars => Inv'
  <1> SUFFICES ASSUME Inv, [Next]_vars PROVE Inv'
    OBVIOUS
  <1>1. CASE UNCHANGED vars
    BY <1>1 DEF vars, procVars, scanVars, mainVars, Inv, CoreInv, TypeOK, LinkInv, HeldInv, NoneHeld,
                Early, OrderInv, HashInv, MappedOnce, LedInv, Lead, Target
  <1> QED BY <1>1, EnvironmentStep, CommStep, SpecialLinkStep, StatStep, LstatStep, MapsOpenStep,
             MapsReadStep, FdOpenStep, FdStep, PrintStep, NextProcessStep DEF Next, Scan, Done

(* Links, rows, remembered names and open descriptors are as Inv says      *)
(* after every system call, whatever the processes do between them.        *)
THEOREM Invariance == Spec => []Inv
  BY Initially, Step, PTL DEF Spec

-----------------------------------------------------------------------------
(* Every row has a name that readlink returned or the mark of a file that  *)
(* may not be read, and hw1 opens no more descriptors than its limit.      *)
THEOREM TypeCorrect == Spec => []TypeOK
  BY Invariance, PTL DEF Inv, CoreInv

(* A process whose scan reaches its memory maps has exactly one row for    *)
(* each of cwd, rtd and txt: handle_special_files lists all of them or     *)
(* drops the process.                                                      *)
THEOREM SpecialFilesListed == Spec => []SpecialComplete
  <1>1. Inv => SpecialComplete
    <2> SUFFICES ASSUME Inv, alive,
                        stage \notin {"comm", "commread", "user", "link", "stat", "lstat"},
                        NEW n \in Special
                 PROVE  Cardinality(RowsOf(n)) = 1
      BY DEF SpecialComplete
    <2>1. /\ Len(file_list) \in Nat /\ Len(file_list) >= 3
          /\ \A i \in 1..Len(file_list) : SpecialRow(i, file_list[i].fd)
      BY LenProperties DEF Inv, CoreInv, TypeOK, OrderInv, Early
    <2>2. \E i \in 1..3 : RowsOf(n) = {i}
      <3>1. RowsOf(n) = {i \in 1..Len(file_list) : file_list[i].fd = n}
        BY DEF RowsOf
      <3>2. CASE n = "cwd"
        <4>1. \A i \in 1..Len(file_list) : file_list[i].fd = n <=> i = 1
          BY <2>1, <3>2 DEF SpecialRow, Special
        <4> QED BY <2>1, <3>1, <4>1
      <3>3. CASE n = "rtd"
        <4>1. \A i \in 1..Len(file_list) : file_list[i].fd = n <=> i = 2
          BY <2>1, <3>3 DEF SpecialRow, Special
        <4> QED BY <2>1, <3>1, <4>1
      <3>4. CASE n = "txt"
        <4>1. \A i \in 1..Len(file_list) : file_list[i].fd = n <=> i = 3
          BY <2>1, <3>4 DEF SpecialRow, Special
        <4> QED BY <2>1, <3>1, <4>1
      <3> QED BY <3>2, <3>3, <3>4 DEF Special
    <2> QED BY <2>2, FS_Singleton
  <1> QED BY <1>1, Invariance, PTL

(* handle_memory_maps lists a file once, however many mappings it has, and *)
(* no file that cwd, rtd or txt has listed: the hash it asks is complete.  *)
THEOREM MappedFilesOnce == Spec => []MappedOnce
  <1>1. Inv => MappedOnce
    BY DEF Inv, CoreInv, HashInv
  <1> QED BY <1>1, Invariance, PTL

(* A row of a link shows only what the link has led to between readlink    *)
(* and lstat, also when the process uses the number of a descriptor again  *)
(* or executes another program in between: it is of one file, and of one   *)
(* opening, when the link has led to one.                                  *)
THEOREM RowsShowTargets == Spec => RowShowsTarget
  <1>1. Inv /\ [Next]_vars => [RowStep]_vars
    <2> DEFINE r == file_list'[Len(file_list')]
    <2> SUFFICES ASSUME Inv, Next, stage \in {"stat", "lstat"}, file_list' # file_list
                 PROVE  /\ r.name \in {o.file : o \in led} /\ r.node \in {o.file : o \in led}
                        /\ at \in FD => r.mode \in {o.mode : o \in led}
      BY DEF RowStep
    <2>0. TypeOK /\ LinkInv /\ LedInv
      BY DEF Inv, CoreInv
    <2>1. Stat \/ Lstat
      BY DEF Next, Environment, Scan, Done, CommOpen, CommRead, set_user_name, SpecialLink, MapsOpen,
             MapsRead, FdOpen, FdRead, FdNext, FdLink, print_opening_files, NextProcess,
             scanVars, vars
    <2>2. Lstat /\ LinkExists /\ Push(StatRow)
      BY <2>1 DEF Stat, Lstat, Throw
    <2>3. stage = "lstat"
      BY <2>2 DEF Lstat
    <2>4. /\ StatRow \in Row /\ StatRow.name = link /\ StatRow.node = node
          /\ at \in FD => StatRow.mode = fds[at].mode
      BY <2>0, <2>3, StatRowFacts
    <2>5. r = StatRow
      <3>1. file_list \in Seq(Row)
        BY <2>0 DEF TypeOK
      <3> QED BY <2>2, <2>4, <3>1, AddRow
    <2>6. ASSUME at \in FD PROVE fds[at] \in led
      <3>1. Lookup(at) \in File
        BY <2>2, <2>6, NotFiles DEF LinkExists
      <3>2. Lead # Closed
        BY <2>0, <3>1, FoundFacts
      <3> QED BY <2>0, <2>3, <2>6, <3>2 DEF LedInv, Lead
    <2> QED BY <2>0, <2>3, <2>4, <2>5, <2>6 DEF LedInv
  <1> QED BY <1>1, Invariance, PTL DEF Spec, RowShowsTarget

(* hw1 leaves one descriptor open for each process at most, although       *)
(* opendir has no closedir and a comm that cannot be read is not closed.   *)
THEOREM OneDescriptorHeld == Spec => []OneHeldPerProcess
  <1>1. Inv => OneHeldPerProcess
    BY DEF Inv, CoreInv, HeldInv, OneHeldPerProcess
  <1> QED BY <1>1, Invariance, PTL

(* No handler drops a process that goes on, may be read, executes a        *)
(* program and finds hw1 with a descriptor left, whatever files it opens,  *)
(* closes and removes under the scan.                                      *)
THEOREM ReadableProcessListed == Spec => ReadableIsListed
  <1>1. Inv /\ [Next]_vars => [DropStep]_vars
    <2> SUFFICES ASSUME Inv, Next, alive, ~alive', status = "live", mine, exe # NoFile
                 PROVE  held = Limit
      BY DEF DropStep, Inv, CoreInv, TypeOK
    <2>0. TypeOK /\ LinkInv
      BY DEF Inv, CoreInv
    <2>1. ASSUME at \in Special PROVE Lookup(at) \in File
      <3>1. Target(at) # NoFile
        BY <2>1, NotFiles DEF Target, Special
      <3> QED BY <2>1, <3>1, LookupFacts, <2>0
    <2>2. CASE CommOpen \/ MapsOpen \/ FdOpen
      BY <2>2 DEF CommOpen, MapsOpen, FdOpen, Full
    <2>3. CASE SpecialLink
      BY <2>0, <2>1, <2>3, NotFiles DEF SpecialLink, LinkInv
    <2>4. CASE Stat \/ Lstat
      BY <2>1, <2>4 DEF Stat, Lstat, LinkExists, Throw, Listed
    <2>5. CASE CommRead \/ set_user_name
      BY <2>5 DEF CommRead, set_user_name
    <2>6. CASE Environment \/ MapsRead \/ FdRead \/ FdNext \/ FdLink \/ print_opening_files
               \/ NextProcess \/ Done
      BY <2>6 DEF Environment, MapsRead, FdRead, FdNext, FdLink, print_opening_files, NextProcess,
                  Done, scanVars, vars
    <2> QED BY <2>2, <2>3, <2>4, <2>5, <2>6 DEF Next, Scan
  <1> QED BY <1>1, Invariance, PTL DEF Spec, ReadableIsListed

-----------------------------------------------------------------------------
(* Termination. *)

(* How many system calls the scan of this process may still take: three    *)
(* for each link, and readdir with each descriptor.                        *)
Work ==
  LET links == IF at \in Special THEN 6 + 4 * Cardinality(FD) + 3 * (2 - Pos(at))
               ELSE 2 + 4 * Cardinality(fd)
      after == 4 * Cardinality(FD)
  IN  CASE stage = "comm" -> 18 + after
        [] stage = "commread" -> 17 + after
        [] stage = "user" -> 16 + after
        [] stage \in {"link", "fdlink"} -> links + 3
        [] stage = "stat" -> links + 2
        [] stage = "lstat" -> links + 1
        [] stage = "maps" -> 6 + after
        [] stage = "mapsread" -> 5 + after
        [] stage = "fd" -> 4 + after
        [] stage = "fdread" -> 3 + after
        [] stage = "fdnext" -> 2 + 4 * Cardinality(fd)
        [] stage = "print" -> 1
        [] stage = "done" -> 0

(* Work, one stage after the other. *)
StageWork ==
  LET F == 4 * Cardinality(FD)
      R == 4 * Cardinality(fd)
  IN  /\ stage = "comm" => Work = 18 + F
      /\ stage = "commread" => Work = 17 + F
      /\ stage = "user" => Work = 16 + F
      /\ stage = "maps" => Work = 6 + F
      /\ stage = "mapsread" => Work = 5 + F
      /\ stage = "fd" => Work = 4 + F
      /\ stage = "fdread" => Work = 3 + F
      /\ stage = "fdnext" => Work = 2 + R
      /\ stage = "print" => Work = 1
      /\ stage = "done" => Work = 0

LinkWork ==
  LET F == 4 * Cardinality(FD)
      R == 4 * Cardinality(fd)
  IN  /\ at \in Special =>
           /\ stage = "link" => Work = (6 + F + 3 * (2 - Pos(at))) + 3
           /\ stage = "stat" => Work = (6 + F + 3 * (2 - Pos(at))) + 2
           /\ stage = "lstat" => Work = (6 + F + 3 * (2 - Pos(at))) + 1
      /\ at \notin Special =>
           /\ stage = "fdlink" => Work = (2 + R) + 3
           /\ stage = "stat" => Work = (2 + R) + 2
           /\ stage = "lstat" => Work = (2 + R) + 1

LEMMA WorkAt == StageWork /\ StageWork'
  BY DEF StageWork, Work

LEMMA WorkLink == LinkWork /\ LinkWork'
  BY DEF LinkWork, Work

(* Sizes of the sets of descriptors, those still to be read among them. *)
LEMMA Sizes ==
  ASSUME IsFiniteSet(FD), TypeOK
  PROVE  /\ Cardinality(FD) \in Nat /\ IsFiniteSet(fd) /\ Cardinality(fd) \in Nat
         /\ Cardinality(fd) <= Cardinality(FD)
  BY FS_Subset, FS_CardinalityType DEF TypeOK

(* Every call of the scan is followed by one that comes later, and readdir *)
(* does not return an entry twice.                                         *)
LEMMA ScanWorks ==
  ASSUME IsFiniteSet(FD), TypeOK, TypeOK', LinkInv, Scan, ~NextProcess
  PROVE  Work' \in 0..(Work - 1)
  <1>1. /\ Cardinality(FD) \in Nat /\ IsFiniteSet(fd) /\ Cardinality(fd) \in Nat
        /\ Cardinality(fd)' \in Nat /\ Cardinality(fd)' <= Cardinality(FD)
    BY Sizes, FS_Subset, FS_CardinalityType DEF TypeOK
  <1> DEFINE F == 4 * Cardinality(FD)
             R == 4 * Cardinality(fd)
             R1 == 4 * Cardinality(fd)'
  <1>2. F \in Nat /\ R \in Nat /\ R1 \in Nat /\ R1 <= F
    BY <1>1
  <1>3. ASSUME Work \in Nat, Work > 0, stage' = "done" PROVE Work' \in 0..(Work - 1)
    BY <1>3, WorkAt DEF StageWork
  <1> HIDE DEF F, R, R1
  <1>4. CASE CommOpen
    <2>1. Work = 18 + F
      BY <1>4, WorkAt DEF StageWork, CommOpen, F
    <2>2. stage' = "done" \/ stage' = "commread"
      BY <1>4 DEF CommOpen, Dead
    <2>3. stage' = "commread" => Work' = 17 + F
      BY WorkAt DEF StageWork, F
    <2> QED BY <1>2, <1>3, <2>1, <2>2, <2>3
  <1>5. CASE CommRead
    <2>1. Work = 17 + F
      BY <1>5, WorkAt DEF StageWork, CommRead, F
    <2>2. stage' = "done" \/ stage' = "user"
      BY <1>5 DEF CommRead, Dead
    <2>3. stage' = "user" => Work' = 16 + F
      BY WorkAt DEF StageWork, F
    <2> QED BY <1>2, <1>3, <2>1, <2>2, <2>3
  <1>6. CASE set_user_name
    <2>1. Work = 16 + F
      BY <1>6, WorkAt DEF StageWork, set_user_name, F
    <2>2. stage' = "done" \/ (stage' = "link" /\ at' = "cwd")
      BY <1>6 DEF set_user_name, Dead, LinkInv
    <2>3. (stage' = "link" /\ at' = "cwd") => Work' = 15 + F
      <3>1. SUFFICES ASSUME stage' = "link", at' = "cwd" PROVE Work' = 15 + F
        OBVIOUS
      <3>2. Pos(at)' = 0 /\ at' \in Special
        BY <3>1 DEF Pos, Special
      <3>3. Work' = (6 + F + 3 * (2 - Pos(at)')) + 3
        BY <3>1, <3>2, WorkLink DEF LinkWork, F
      <3> QED BY <1>2, <3>2, <3>3
    <2> QED BY <1>2, <1>3, <2>1, <2>2, <2>3
  <1>7. ASSUME at \in Special, NextSpecial, fd' = fd, Work > 6 + F + 3 * (2 - Pos(at)), Work \in Nat
        PROVE  Work' \in 0..(Work - 1)
    <2>1. /\ at = "cwd" => at' = "rtd" /\ stage' = "link"
          /\ at = "rtd" => at' = "txt" /\ stage' = "link"
          /\ at = "txt" => at' = "txt" /\ stage' = "maps"
      BY <1>7, NextSpecialFacts
    <2>2. CASE at = "txt"
      <3>1. Work' = 6 + F
        BY <2>1, <2>2, WorkAt DEF StageWork, F
      <3> QED BY <1>2, <1>7, <2>2, <3>1 DEF Pos
    <2>3. CASE at \in {"cwd", "rtd"}
      <3>1. at' \in Special /\ Pos(at)' = Pos(at) + 1 /\ Pos(at) \in 0..1 /\ stage' = "link"
        BY <2>1, <2>3 DEF Pos, Special
      <3>2. Work' = (6 + F + 3 * (2 - Pos(at)')) + 3
        BY <3>1, WorkLink DEF LinkWork, F
      <3> QED BY <1>2, <1>7, <3>1, <3>2
    <2> QED BY <1>7, <2>2, <2>3 DEF Special
  <1>8. at \in Special => Pos(at) \in 0..2
    BY DEF Pos
  <1>9. CASE SpecialLink
    <2>1. stage = "link" /\ at \in Special /\ fd' = fd
      BY <1>9 DEF SpecialLink, LinkInv
    <2>2. Work = (6 + F + 3 * (2 - Pos(at))) + 3
      BY <2>1, WorkLink DEF LinkWork, F
    <2>3. Work \in Nat /\ Work > 6 + F + 3 * (2 - Pos(at))
      BY <1>2, <1>8, <2>1, <2>2
    <2>4. NextSpecial \/ stage' = "done" \/ (stage' = "stat" /\ at' = at)
      BY <1>9 DEF SpecialLink, Dead
    <2>5. CASE stage' = "stat" /\ at' = at
      <3>1. Work' = (6 + F + 3 * (2 - Pos(at))) + 2
        BY <2>1, <2>5, WorkLink DEF LinkWork, F, Pos
      <3> QED BY <1>2, <1>8, <2>1, <2>2, <3>1
    <2> QED BY <1>3, <1>7, <1>8, <2>1, <2>3, <2>4, <2>5, <1>2
  <1>10. ASSUME at \notin Special, stage' = "fdnext", fd' = fd, Work > 2 + R, Work \in Nat
         PROVE  Work' \in 0..(Work - 1)
    <2>1. Work' = 2 + R
      BY <1>10, WorkAt DEF StageWork, R
    <2> QED BY <1>2, <1>10, <2>1
  <1>11. ASSUME stage = "stat" \/ stage = "lstat"
         PROVE  /\ Work \in Nat /\ Work > 0
                /\ at \in Special => Work > 6 + F + 3 * (2 - Pos(at))
                /\ at \notin Special => Work > 2 + R
    <2>1. CASE at \in Special
      <3>1. Work = (6 + F + 3 * (2 - Pos(at))) + 2 \/ Work = (6 + F + 3 * (2 - Pos(at))) + 1
        BY <1>11, <2>1, WorkLink DEF LinkWork, F
      <3> QED BY <1>2, <1>8, <2>1, <3>1
    <2>2. CASE at \notin Special
      <3>1. Work = (2 + R) + 2 \/ Work = (2 + R) + 1
        BY <1>11, <2>2, WorkLink DEF LinkWork, R
      <3> QED BY <1>2, <2>2, <3>1
    <2> QED BY <2>1, <2>2
  <1>12. ASSUME stage = "stat" \/ stage = "lstat", fd' = fd, Throw \/ Listed
         PROVE  Work' \in 0..(Work - 1)
    <2>1. CASE at \in Special
      <3>1. stage' = "done" \/ NextSpecial
        BY <1>12, <2>1 DEF Throw, Listed, Dead
      <3> QED BY <1>3, <1>7, <1>11, <1>12, <2>1, <3>1
    <2>2. CASE at \notin Special
      <3>1. stage' = "fdnext"
        BY <1>12, <2>2 DEF Throw, Listed
      <3> QED BY <1>10, <1>11, <1>12, <2>2, <3>1
    <2> QED BY <2>1, <2>2
  <1>13. CASE Stat
    <2>1. stage = "stat" /\ fd' = fd
      BY <1>13 DEF Stat
    <2>2. CASE Throw
      BY <1>12, <2>1, <2>2
    <2>3. CASE stage' = "lstat" /\ at' = at
      <3>1. CASE at \in Special
        <4>1. Work = (6 + F + 3 * (2 - Pos(at))) + 2 /\ Work' = (6 + F + 3 * (2 - Pos(at))) + 1
          BY <2>1, <2>3, <3>1, WorkLink DEF LinkWork, F, Pos
        <4> QED BY <1>2, <1>8, <3>1, <4>1
      <3>2. CASE at \notin Special
        <4>1. Work = (2 + R) + 2 /\ Work' = (2 + R) + 1
          BY <2>1, <2>3, <3>2, WorkLink DEF LinkWork, R
        <4> QED BY <1>2, <4>1
      <3> QED BY <3>1, <3>2
    <2> QED BY <1>13, <2>2, <2>3 DEF Stat
  <1>14. CASE Lstat
    BY <1>12, <1>14 DEF Lstat
  <1>15. CASE MapsOpen
    <2>1. Work = 6 + F
      BY <1>15, WorkAt DEF StageWork, MapsOpen, F
    <2>2. stage' = "done" \/ stage' = "fd" \/ stage' = "mapsread"
      BY <1>15 DEF MapsOpen, Dead
    <2>3. (stage' = "fd" => Work' = 4 + F) /\ (stage' = "mapsread" => Work' = 5 + F)
      BY WorkAt DEF StageWork, F
    <2> QED BY <1>2, <1>3, <2>1, <2>2, <2>3
  <1>16. CASE MapsRead
    <2>1. Work = 5 + F /\ Work' = 4 + F
      BY <1>16, WorkAt DEF StageWork, MapsRead, F
    <2> QED BY <1>2, <2>1
  <1>17. CASE FdOpen
    <2>1. Work = 4 + F
      <3>1. stage = "fd"
        BY <1>17, Zenon DEF FdOpen
      <3> QED BY <3>1, WorkAt DEF StageWork, F
    <2>2. stage' = "done" \/ stage' = "print" \/ stage' = "fdread"
      BY <1>17, Zenon DEF FdOpen, Dead
    <2>3. (stage' = "print" => Work' = 1) /\ (stage' = "fdread" => Work' = 3 + F)
      BY WorkAt DEF StageWork, F
    <2> QED BY <1>2, <1>3, <2>1, <2>2, <2>3
  <1>18. CASE FdRead
    <2>1. Work = 3 + F /\ Work' = 2 + R1
      BY <1>18, WorkAt DEF StageWork, FdRead, F, R1
    <2> QED BY <1>2, <2>1
  <1>19. CASE FdNext
    <2>1. Work = 2 + R
      BY <1>19, WorkAt DEF StageWork, FdNext, R
    <2>2. CASE stage' = "print"
      <3>1. Work' = 1
        BY <2>2, WorkAt DEF StageWork
      <3> QED BY <1>2, <2>1, <3>1
    <2>3. CASE \E n \in fd : at' = n /\ fd' = fd \ {n} /\ stage' = "fdlink"
      <3>1. PICK n \in fd : at' = n /\ fd' = fd \ {n} /\ stage' = "fdlink"
        BY <2>3
      <3>2. Cardinality(fd)' = Cardinality(fd) - 1
        BY <1>1, <3>1, FS_RemoveElement
      <3>3. at' \notin Special
        BY <3>1, NotFiles DEF TypeOK
      <3>4. Work' = (2 + R1) + 3
        BY <3>1, <3>3, WorkLink DEF LinkWork, R1
      <3>5. R1 = R - 4
        BY <1>1, <3>2 DEF R, R1
      <3> QED BY <1>2, <2>1, <3>4, <3>5
    <2> QED BY <1>19, <2>2, <2>3 DEF FdNext
  <1>20. CASE FdLink
    <2>1. stage = "fdlink" /\ at \notin Special /\ at' = at /\ fd' = fd
      BY <1>20, NotFiles DEF FdLink, LinkInv
    <2>2. Work = (2 + R) + 3
      BY <2>1, WorkLink DEF LinkWork, R
    <2>3. CASE stage' = "fdnext"
      BY <1>2, <1>10, <2>1, <2>2, <2>3
    <2>4. CASE stage' = "stat"
      <3>1. Work' = (2 + R) + 2
        BY <2>1, <2>4, WorkLink DEF LinkWork, R
      <3> QED BY <1>2, <2>2, <3>1
    <2> QED BY <1>20, <2>3, <2>4 DEF FdLink
  <1>21. CASE print_opening_files
    <2>1. Work = 1 /\ Work' = 0
      BY <1>21, WorkAt DEF StageWork, print_opening_files
    <2> QED BY <2>1
  <1> QED BY <1>4, <1>5, <1>6, <1>9, <1>13, <1>14, <1>15, <1>16, <1>17, <1>18, <1>19, <1>20, <1>21
             DEF Scan

(* The listing cannot go on for ever, whatever the processes do meanwhile: *)
(* a step of hw1 goes on to the next process or leaves this one with less  *)
(* to do, and no step of the process gives hw1 more to do (a descriptor    *)
(* opened under the scan is not seen by the loop over readdir).            *)
THEOREM ScanBounded ==
  ASSUME IsFiniteSet(FD)
  PROVE  Spec => [][/\ Environment => Work' = Work /\ left' = left
                    /\ Scan => \/ left' \in 0..(left - 1)
                               \/ left' = left /\ Work' \in 0..(Work - 1)]_vars
  <1> DEFINE A == /\ Environment => Work' = Work /\ left' = left
                  /\ Scan => \/ left' \in 0..(left - 1)
                             \/ left' = left /\ Work' \in 0..(Work - 1)
  <1>1. Inv /\ Inv' /\ [Next]_vars => [A]_vars
    <2> SUFFICES ASSUME Inv, Inv' PROVE A
      OBVIOUS
    <2>1. TypeOK /\ TypeOK' /\ LinkInv
      BY DEF Inv, CoreInv
    <2>2. ASSUME Environment PROVE Work' = Work /\ left' = left
      BY <2>2 DEF Environment, scanVars, mainVars, Work, Pos
    <2>3. CASE NextProcess
      <3>1. left \in Nat /\ left > 0 /\ left' = left - 1
        BY <2>1, <2>3, LsofAssumption DEF NextProcess, TypeOK
      <3> QED BY <2>2, <3>1
    <2>4. CASE Scan /\ ~NextProcess
      <3>1. left' = left
        <4>1. CASE FdOpen
          BY <4>1, Zenon DEF FdOpen
        <4>2. CASE ~FdOpen
          BY <2>4, <4>2 DEF Scan, CommOpen, CommRead, set_user_name, SpecialLink, Stat, Lstat,
             MapsOpen, MapsRead, FdRead, FdNext, FdLink, print_opening_files, mainVars
        <4> QED BY <4>1, <4>2
      <3>2. Work' \in 0..(Work - 1)
        BY <2>1, <2>4, ScanWorks
      <3> QED BY <2>2, <3>1, <3>2
    <2>5. CASE ~Scan
      BY <2>2, <2>5
    <2> QED BY <2>3, <2>4, <2>5
  <1>2. Spec => []Inv
    BY Invariance
  <1> QED BY <1>1, <1>2, PTL DEF Spec

=============================================================================
