------------------------------- MODULE Prompt -------------------------------
(***************************************************************************)
(* The front end of the debugger: main reads a line, dbgcmd_parser cuts it *)
(* into words one turn of its loop after the other, and the commands get,  *)
(* set and disasm turn words into numbers, registers and addresses.  The   *)
(* commands that run the child or change the break points are those of     *)
(* module Debugger and do nothing here.                                    *)
(*                                                                         *)
(* A line is a sequence of blanks and whole words; long holds the numbers  *)
(* from -Half to Half - 1, and unsigned long long those from 0 on to twice *)
(* as many.                                                                *)
(***************************************************************************)
EXTENDS Integers, Sequences, FiniteSets

CONSTANTS
  Word,           \* what a user may type
  Number,         \* the number strtol reads in a word that starts with one
  Reg,            \* the registers reg_handler knows
  MaxLine,        \* bound on the length of a line
  Half,           \* how many numbers of long are not negative
  WordSize,       \* bytes PTRACE_PEEKTEXT returns
  N_DISASM_INS,
  Files           \* programs to load, each its list of sections

Blank == " "

(* Words at the positions P of a line of length n, no two next to each other. *)
Places(n) == {P \in SUBSET (1..n) : \A i \in P : i + 1 \notin P}
Line ==
  UNION {UNION {{[i \in 1..n |-> IF i \in P THEN w[i] ELSE Blank] : w \in [P -> Word]} :
                  P \in Places(n)} : n \in 0..MaxLine}

Modulus == 2 * Half
ULL == 0..(Modulus - 1)
LONG_MIN == -Half
LONG_MAX == Half - 1
Section == [name : STRING, addr : ULL, size : ULL]

ASSUME PromptAssumption ==
  /\ Blank \notin Word /\ Reg \subseteq Word
  /\ Number \in [DOMAIN Number -> Int] /\ DOMAIN Number \subseteq Word
  /\ MaxLine \in Nat /\ Half \in Nat \ {0, 1} /\ WordSize \in Nat \ {0, 1}
  /\ N_DISASM_INS \in Nat
  /\ \A f \in Files : f \in Seq(Section)

VARIABLES
  stage,           \* prompt, parse, run, walk or exited
  line, pos1, cmds,
  running,         \* is the state RUNNING?
  text,            \* text_begin and text_end
  regs,
  out,             \* what the command printed
  tar_addr, listed,\* where disasm is and the instructions it has printed
  turn,            \* its loop counter
  size,            \* lengths of the program's instructions, 0 for none
  typed            \* history: the number of the last set of each register

parseVars == <<line, pos1, cmds>>
walkVars == <<tar_addr, listed, turn, size>>
vars == <<stage, parseVars, running, text, regs, out, walkVars, typed>>

Silent == Modulus       \* no number of long
NoAnswer == [reg |-> Blank, val |-> Silent]
Text == text.begin..text.end

(* The values of the front end. *)
TypeOK ==
  /\ stage \in {"prompt", "parse", "run", "walk", "exited"}
  /\ line \in Seq(Word \cup {Blank})
  /\ pos1 \in 1..(MaxLine + 1)
  /\ cmds \in Seq(Seq(Word))
  /\ running \in BOOLEAN /\ text \in [begin : ULL, end : ULL]
  /\ regs \in [Reg -> ULL]
  /\ DOMAIN typed \subseteq Reg /\ \A r \in DOMAIN typed : typed[r] \in Int
  /\ tar_addr \in ULL /\ turn \in 0..N_DISASM_INS

(* text_begin and text_end as the constructor leaves them, and the error   *)
(* returns of elf64_parser, after which load leaves the state NOLOAD.      *)
NoText == [begin |-> Modulus - 1, end |-> Modulus - 1]

(* The loop of elf64_parser over the sections: the first one named .text.  *)
elf64_parser(sections) ==
  LET found == {i \in 1..Len(sections) : sections[i].name = ".text"}
      s == sections[CHOOSE i \in found : \A j \in found : i <= j]
  IN  IF found = {} THEN NoText
      ELSE [begin |-> s.addr, end |-> (s.addr + s.size - 1) % Modulus]

(* load and start have been carried out, or not, or load has failed        *)
(* (module Debugger).                                                      *)
Init ==
  /\ stage = "prompt" /\ line = <<>> /\ pos1 = 1 /\ cmds = <<>>
  /\ \/ running \in BOOLEAN /\ \E f \in Files : text = elf64_parser(f)
     \/ running = FALSE /\ text = NoText
  /\ regs \in [Reg -> {0}] /\ typed = <<>>
  /\ out = NoAnswer
  /\ tar_addr = 0 /\ listed = <<>> /\ turn = 0 /\ size = <<>>

-----------------------------------------------------------------------------
(* main and dbgcmd_parser. *)

getline ==
  /\ stage = "prompt"
  /\ \/ line' \in Line /\ stage' = "parse"
     \/ UNCHANGED line /\ stage' = "exited"
  /\ pos1' = 1 /\ cmds' = <<>> /\ out' = NoAnswer
  /\ UNCHANGED <<running, text, regs, walkVars, typed>>

Blanks == {i \in pos1..Len(line) : line[i] = Blank}
pos2 == CHOOSE i \in Blanks : \A j \in Blanks : i <= j

(* Mutant: an empty word is a word. *)
CutKeepsEmpty ==
  cmds' = Append(cmds, SubSeq(line, pos1, pos2 - 1)) /\ pos1' = pos2 + 1

(* Mutant: an empty word does not move pos1. *)
CutStays ==
  IF pos1 = pos2 THEN UNCHANGED <<pos1, cmds>>
  ELSE cmds' = Append(cmds, SubSeq(line, pos1, pos2 - 1)) /\ pos1' = pos2 + 1

(* One turn of the loop of dbgcmd_parser. *)
Cut ==
  LET word == SubSeq(line, pos1, pos2 - 1)
  IN  \/ word = <<>> /\ pos1' = pos1 + 1 /\ UNCHANGED cmds
      \/ word # <<>> /\ cmds' = Append(cmds, word) /\ pos1' = pos2 + 1

dbgcmd_parser ==
  /\ stage = "parse"
  /\ \/ Blanks # {} /\ Cut /\ UNCHANGED stage
     \/ /\ Blanks = {}
        /\ cmds' = Append(cmds, SubSeq(line, pos1, Len(line)))
        /\ stage' = "run" /\ UNCHANGED pos1
  /\ UNCHANGED <<line, running, text, regs, out, walkVars, typed>>

Is(name) == stage = "run" /\ cmds[1] = <<name>>
Back == stage' = "prompt" /\ line' = <<>> /\ pos1' = 1 /\ cmds' = <<>>

-----------------------------------------------------------------------------
(* Numbers and registers. *)

Typed(w) == IF w # <<>> /\ w[1] \in DOMAIN Number THEN Number[w[1]] ELSE 0

(* strtol stops at the limits of long. *)
Clamp(n) == IF n > LONG_MAX THEN LONG_MAX ELSE IF n < LONG_MIN THEN LONG_MIN ELSE n

(* Mutant: the conversion to unsigned is lost. *)
strtolSigned(w) == Clamp(Typed(w))

(* The result of strtol becomes unsigned. *)
strtol(w) == Clamp(Typed(w)) % Modulus

(* Mutant: the register is printed as unsigned. *)
SignedNot(v) == v

(* The format %lld. *)
Signed(v) == IF v > LONG_MAX THEN v - Modulus ELSE v

(* -1 of reg_handler means no register, so that a register that holds -1   *)
(* is not shown.                                                           *)
get_single_reg ==
  /\ Is("get")
  /\ out' = IF running /\ Len(cmds) >= 2 /\ \E r \in Reg : cmds[2] = <<r>>
            THEN LET v == regs[cmds[2][1]]
                 IN  [reg |-> cmds[2][1],
                      val |-> IF v = Modulus - 1 THEN Silent ELSE Signed(v)]
            ELSE NoAnswer
  /\ Back
  /\ UNCHANGED <<running, text, regs, walkVars, typed>>

Accepted == running /\ Len(cmds) >= 3 /\ \E r \in Reg : cmds[2] = <<r>>

(* reg_handler takes a value of 0 for a read: the register keeps what it   *)
(* held.                                                                   *)
set_reg ==
  /\ Is("set")
  /\ \/ ~Accepted /\ UNCHANGED <<regs, typed>>
     \/ /\ Accepted
        /\ LET r == cmds[2][1]
               v == strtol(cmds[3])
           IN  /\ regs' = [regs EXCEPT ![r] = IF v = 0 THEN @ ELSE v]
               /\ typed' = [q \in DOMAIN typed \cup {r} |->
                              IF q = r THEN Typed(cmds[3]) ELSE typed[q]]
  /\ Back
  /\ UNCHANGED <<running, text, out, walkVars>>

-----------------------------------------------------------------------------
(* disasm. *)

(* Mutant: the disassembler gets two bytes less than a word. *)
CodeBytesShort == WordSize - 2

(* sizeof(code)-1, with the size of the pointer. *)
CodeBytes == WordSize - 1

Decodes(a) == size[a] \in 1..CodeBytes

(* What translate returns; its failure is -1. *)
translate(a) == IF Decodes(a) THEN size[a] ELSE Modulus - 1

Listable == running /\ Len(cmds) >= 2 /\ strtol(cmds[2]) \in Text

disasm ==
  /\ Is("disasm")
  /\ \/ ~Listable /\ Back /\ UNCHANGED walkVars
     \/ /\ Listable
        /\ size' \in [Text -> 0..WordSize]
        /\ tar_addr' = strtol(cmds[2]) /\ listed' = <<>> /\ turn' = 0
        /\ stage' = "walk" /\ line' = <<>> /\ pos1' = 1 /\ cmds' = <<>>
  /\ UNCHANGED <<running, text, regs, out, typed>>

More == turn < N_DISASM_INS /\ tar_addr \in Text

(* One turn of the loop: only an instruction that decodes is printed, and  *)
(* a failure moves one byte back.                                          *)
Walk ==
  /\ stage = "walk" /\ More
  /\ listed' = IF Decodes(tar_addr) THEN Append(listed, tar_addr) ELSE listed
  /\ tar_addr' = (tar_addr + translate(tar_addr)) % Modulus
  /\ turn' = turn + 1
  /\ UNCHANGED <<stage, parseVars, running, text, regs, out, size, typed>>

WalkEnds ==
  /\ stage = "walk" /\ ~More
  /\ Back /\ tar_addr' = 0 /\ listed' = <<>> /\ turn' = 0 /\ size' = <<>>
  /\ UNCHANGED <<running, text, regs, out, typed>>

(* exit, and every other line. *)
Exit ==
  /\ Is("exit")
  /\ stage' = "exited"
  /\ UNCHANGED <<parseVars, running, text, regs, out, walkVars, typed>>

OtherCommand ==
  /\ stage = "run" /\ \A name \in {"get", "set", "disasm", "exit"} : ~Is(name)
  /\ Back
  /\ UNCHANGED <<running, text, regs, out, walkVars, typed>>

-----------------------------------------------------------------------------
Command == get_single_reg \/ set_reg \/ disasm \/ Walk \/ WalkEnds \/ Exit \/ OtherCommand

Done == stage = "exited" /\ UNCHANGED vars

Next == getline \/ dbgcmd_parser \/ Command \/ Done

(* The debugger is scheduled; the user need not type anything. *)
Spec == Init /\ [][Next]_vars /\ WF_vars(dbgcmd_parser \/ Command)

-----------------------------------------------------------------------------
(* Properties. *)

(* Where the words are among the first n places of the line: the word at   *)
(* place i is number Cardinality(WordsIn(i)).                              *)
WordsIn(n) == {i \in 1..n : line[i] # Blank}

(* dbgcmd_parser returns the words of the line in order, however many      *)
(* blanks there are, and one empty word more when the line is empty or     *)
(* ends in a blank: never nothing, so that the cmds.at(0) of main is safe. *)
CmdsAreWords ==
  stage = "run" =>
    LET open == line = <<>> \/ line[Len(line)] = Blank
        n == Cardinality(WordsIn(Len(line)))
    IN  /\ Len(cmds) = IF open THEN n + 1 ELSE n
        /\ \A i \in WordsIn(Len(line)) : cmds[Cardinality(WordsIn(i))] = <<line[i]>>
        /\ open => cmds[n + 1] = <<>>

(* get answers with the number of the last set of the register, after      *)
(* strtol, the unsigned registers and the signed output: exactly within    *)
(* long, at its limit beyond it, and not at all for -1.  Of a register     *)
(* whose last set was of 0 it says nothing, since reg_handler takes the 0  *)
(* for a read: there get answers with what the register held before,       *)
(* although help says that set puts the value into it.                     *)
GetAnswersSet ==
  (out # NoAnswer /\ out.reg \in DOMAIN typed /\ typed[out.reg] # 0) =>
    LET n == Clamp(typed[out.reg]) IN out.val = IF n = -1 THEN Silent ELSE n

(* When every instruction of .text fits in the bytes the disassembler is   *)
(* given, disasm prints successive instructions, inside .text, and leaves  *)
(* none out before the tenth or the end of .text.                          *)
ListingIsProgram ==
  (stage = "walk" /\ \A a \in Text : size[a] \in 1..(WordSize - 1)) =>
    /\ \A i \in 1..(Len(listed) - 1) : listed[i + 1] = (listed[i] + size[listed[i]]) % Modulus
    /\ \A i \in 1..Len(listed) : listed[i] \in Text
    /\ ~More => \/ Len(listed) = N_DISASM_INS
                \/ listed # <<>> /\ LET a == listed[Len(listed)] IN a + size[a] > text.end

(* Every line is dealt with: neither the loop of dbgcmd_parser nor the one *)
(* of disasm, which may go back, runs for ever.                            *)
LineAnswered == (stage = "parse") ~> (stage \in {"prompt", "exited"})

=============================================================================
