---------------------------- MODULE PromptProofs ----------------------------
(***************************************************************************)
(* The front end of the debugger, for any words and registers, lines of    *)
(* any length, any width of long and any program.                          *)
(***************************************************************************)
EXTENDS Prompt, FiniteSetTheorems, SequenceTheorems, WellFoundedInduction, TLAPS

(* A line is within its bound, and a word ends where the blank after it    *)
(* begins.                                                                 *)
LineInv ==
  /\ Len(line) <= MaxLine
  /\ \A i \in 1..(Len(line) - 1) : line[i] = Blank \/ line[i + 1] = Blank

(* The words among the first n places have been found. *)
Found(n) ==
  /\ Len(cmds) = Cardinality(WordsIn(n))
  /\ \A i \in WordsIn(n) : cmds[Cardinality(WordsIn(i))] = <<line[i]>>

(* dbgcmd_parser has found the words before pos1, and pos1 is where a word *)
(* may begin.                                                              *)
ParseInv ==
  stage = "parse" =>
    /\ pos1 <= Len(line) + 1
    /\ pos1 > 1 => line[pos1 - 1] = Blank
    /\ Found(pos1 - 1)

(* A register holds the number of its last set, unless that was 0. *)
RegInv == \A r \in DOMAIN typed : typed[r] # 0 => regs[r] = Clamp(typed[r]) % Modulus

(* An answer is about the register as it is. *)
OutInv ==
  out # NoAnswer =>
    /\ stage = "prompt" /\ out.reg \in Reg
    /\ out.val = IF regs[out.reg] = Modulus - 1 THEN Silent ELSE Signed(regs[out.reg])

(* disasm is at the address after the last instruction it has listed. *)
Listing ==
  /\ Len(listed) = turn
  /\ \A i \in 1..(Len(listed) - 1) : listed[i + 1] = (listed[i] + size[listed[i]]) % Modulus
  /\ \A i \in 1..Len(listed) : listed[i] \in Text
  /\ listed = <<>> => tar_addr \in Text
  /\ listed # <<>> => LET a == listed[Len(listed)] IN tar_addr = (a + size[a]) % Modulus

WalkInv ==
  stage = "walk" =>
    /\ size \in [Text -> 0..WordSize]
    /\ listed \in Seq(ULL)
    /\ (\A a \in Text : size[a] \in 1..(WordSize - 1)) => Listing

Inv == TypeOK /\ LineInv /\ ParseInv /\ CmdsAreWords /\ RegInv /\ OutInv /\ WalkInv

-----------------------------------------------------------------------------
(* Numbers. *)

LEMMA LeastNat ==
  ASSUME NEW T \in SUBSET Nat, T # {}
  PROVE  \E x \in T : \A y \in T : x <= y
  <1> DEFINE R == OpToRel(<, Nat)
  <1>1. R = {ss \in Nat \X Nat : ss[1] < ss[2]}
    BY DEF OpToRel
  <1>2. IsWellFoundedOn(R, Nat)
    BY NatLessThanWellFounded
  <1>3. \A x, y \in Nat : <<y, x>> \in R <=> y < x
    BY <1>1
  <1> HIDE DEF R
  <1>4. PICK x \in T : \A y \in T : ~(<<y, x>> \in R)
    BY <1>2, WFMin
  <1>5. \A y \in T : ~(y < x)
    BY <1>3, <1>4
  <1> QED BY <1>4, <1>5

LEMMA Width ==
  /\ Half \in Nat \ {0, 1} /\ Modulus \in Nat \ {0} /\ Modulus = 2 * Half
  /\ LONG_MIN = -Half /\ LONG_MAX = Half - 1 /\ ULL = 0..(Modulus - 1)
  /\ Silent = Modulus
  BY PromptAssumption DEF Modulus, LONG_MIN, LONG_MAX, ULL, Silent

LEMMA Wraps == \A n \in Int : n % Modulus \in ULL
  BY Width

LEMMA Fits == \A n \in ULL : n % Modulus = n
  BY Width

(* strtol stays within long, and only a 0 becomes the 0 of reg_handler. *)
LEMMA ClampFacts ==
  ASSUME NEW n \in Int
  PROVE  /\ Clamp(n) \in LONG_MIN..LONG_MAX /\ Clamp(n) \in Int
         /\ n # 0 => Clamp(n) % Modulus # 0
  <1>1. /\ Clamp(n) \in Int /\ LONG_MIN <= Clamp(n) /\ Clamp(n) <= LONG_MAX
        /\ n # 0 => Clamp(n) # 0
    BY Width DEF Clamp
  <1>2. ASSUME NEW c \in Int, LONG_MIN <= c, c <= LONG_MAX, c # 0 PROVE c % Modulus # 0
    <2>1. CASE c > 0
      <3>1. c % Modulus = c
        BY <1>2, <2>1, Width
      <3> QED BY <1>2, <3>1
    <2>2. CASE c < 0
      <3>1. c % Modulus = c + Modulus
        BY <1>2, <2>2, Width
      <3> QED BY <1>2, <3>1, Width
    <2> QED BY <1>2, <2>1, <2>2
  <1> QED BY <1>1, <1>2, Width

(* What strtol reads is a number, and what is kept of it is unsigned. *)
LEMMA StrtolType == \A w : Typed(w) \in Int /\ strtol(w) \in ULL
  <1> SUFFICES ASSUME NEW w PROVE Typed(w) \in Int /\ strtol(w) \in ULL
    OBVIOUS
  <1>1. Typed(w) \in Int
    BY PromptAssumption DEF Typed
  <1> QED BY <1>1, ClampFacts, Wraps DEF strtol

(* A number of long comes back from its unsigned form. *)
LEMMA SignedBack ==
  ASSUME NEW n \in LONG_MIN..LONG_MAX
  PROVE  /\ Signed(n % Modulus) = n
         /\ n % Modulus = Modulus - 1 <=> n = -1
  <1>1. CASE n >= 0
    <2>1. n % Modulus = n
      BY <1>1, Width
    <2> QED BY <1>1, <2>1, Width DEF Signed
  <1>2. CASE n < 0
    <2>1. n % Modulus = n + Modulus
      BY <1>2, Width
    <2> QED BY <1>2, <2>1, Width DEF Signed
  <1>3. n \in Int
    BY Width
  <1> QED BY <1>1, <1>2, <1>3

-----------------------------------------------------------------------------
(* Lines and words. *)

LEMMA LineFacts ==
  ASSUME NEW l \in Line
  PROVE  /\ l \in Seq(Word \cup {Blank}) /\ Len(l) \in Nat /\ Len(l) <= MaxLine
         /\ \A i \in 1..(Len(l) - 1) : l[i] = Blank \/ l[i + 1] = Blank
  <1>0. PICK n \in 0..MaxLine :
          l \in UNION {{[i \in 1..n |-> IF i \in P THEN w[i] ELSE Blank] : w \in [P -> Word]} :
                        P \in Places(n)}
    BY DEF Line
  <1>1. PICK P \in Places(n) : \E w \in [P -> Word] :
          l = [i \in 1..n |-> IF i \in P THEN w[i] ELSE Blank]
    BY <1>0
  <1>2. n \in Nat /\ n <= MaxLine
    BY <1>1, PromptAssumption
  <1>3. P \in SUBSET (1..n) /\ \A i \in P : i + 1 \notin P
    BY DEF Places
  <1>4. \A i \in 1..n : l[i] \in Word \cup {Blank} /\ (i \notin P => l[i] = Blank)
    BY <1>1
  <1>5. l \in Seq(Word \cup {Blank}) /\ Len(l) = n
    <2>1. l \in [1..n -> Word \cup {Blank}]
      BY <1>1
    <2> QED BY <1>2, <2>1
  <1>6. ASSUME NEW i \in 1..(n - 1) PROVE l[i] = Blank \/ l[i + 1] = Blank
    <2>1. i \in 1..n /\ i + 1 \in 1..n
      BY <1>2
    <2> QED BY <1>3, <1>4, <2>1
  <1> QED BY <1>2, <1>5, <1>6

(* Words are counted along the line. *)
LEMMA WordCount ==
  ASSUME NEW n \in Nat
  PROVE  /\ IsFiniteSet(WordsIn(n)) /\ Cardinality(WordsIn(n)) \in Nat
         /\ n + 1 \notin WordsIn(n)
         /\ line[n + 1] = Blank => WordsIn(n + 1) = WordsIn(n)
         /\ line[n + 1] # Blank => /\ WordsIn(n + 1) = WordsIn(n) \cup {n + 1}
                                  /\ Cardinality(WordsIn(n + 1)) = Cardinality(WordsIn(n)) + 1
  <1>1. IsFiniteSet(WordsIn(n))
    <2>1. IsFiniteSet(1..n)
      BY FS_Interval
    <2> QED BY <2>1, FS_Subset DEF WordsIn
  <1>2. 1..(n + 1) = (1..n) \cup {n + 1} /\ n + 1 \notin 1..n
    OBVIOUS
  <1>3. n + 1 \notin WordsIn(n)
    BY <1>2 DEF WordsIn
  <1>4. line[n + 1] = Blank => WordsIn(n + 1) = WordsIn(n)
    BY <1>2 DEF WordsIn
  <1>5. line[n + 1] # Blank => WordsIn(n + 1) = WordsIn(n) \cup {n + 1}
    BY <1>2 DEF WordsIn
  <1> QED BY <1>1, <1>3, <1>4, <1>5, FS_AddElement, FS_CardinalityType

LEMMA WordNumber ==
  ASSUME NEW n \in Nat, NEW i \in WordsIn(n)
  PROVE  Cardinality(WordsIn(i)) \in 1..Cardinality(WordsIn(n))
  <1>1. i \in 1..n /\ i \in WordsIn(i) /\ WordsIn(i) \subseteq WordsIn(n)
    BY DEF WordsIn
  <1>2. /\ IsFiniteSet(WordsIn(n)) /\ Cardinality(WordsIn(n)) \in Nat
        /\ IsFiniteSet(WordsIn(i)) /\ Cardinality(WordsIn(i)) \in Nat
    BY <1>1, WordCount
  <1>3. Cardinality(WordsIn(i)) <= Cardinality(WordsIn(n))
    BY <1>1, <1>2, FS_Subset
  <1>4. Cardinality(WordsIn(i)) # 0
    BY <1>1, <1>2, FS_EmptySet
  <1> QED BY <1>2, <1>3, <1>4

(* One word more is found, or there is none at the next place. *)
LEMMA FoundWord ==
  ASSUME cmds \in Seq(Seq(Word)), NEW n \in Nat, Found(n), line' = line,
         line[n + 1] # Blank, cmds' = Append(cmds, <<line[n + 1]>>), line[n + 1] \in Word
  PROVE  Found(n + 1)' /\ cmds' \in Seq(Seq(Word))
  <1>1. /\ cmds' \in Seq(Seq(Word)) /\ Len(cmds) \in Nat /\ Len(cmds') = Len(cmds) + 1
        /\ \A k \in 1..Len(cmds) : cmds'[k] = cmds[k]
        /\ cmds'[Len(cmds) + 1] = <<line[n + 1]>>
    BY AppendProperties, LenProperties
  <1>2. \A k \in Nat : WordsIn(k)' = WordsIn(k)
    BY DEF WordsIn
  <1>3. /\ Len(cmds) = Cardinality(WordsIn(n))
        /\ \A i \in WordsIn(n) : cmds[Cardinality(WordsIn(i))] = <<line[i]>>
    BY DEF Found
  <1>4. /\ WordsIn(n + 1) = WordsIn(n) \cup {n + 1}
        /\ Cardinality(WordsIn(n + 1)) = Len(cmds) + 1
    BY <1>3, WordCount
  <1>5. ASSUME NEW i \in WordsIn(n + 1) PROVE cmds'[Cardinality(WordsIn(i))] = <<line[i]>>
    <2>1. CASE i = n + 1
      BY <1>1, <1>4, <2>1
    <2>2. CASE i \in WordsIn(n)
      <3>1. Cardinality(WordsIn(i)) \in 1..Len(cmds)
        BY <1>3, <2>2, WordNumber
      <3> QED BY <1>1, <1>3, <2>2, <3>1
    <2> QED BY <1>4, <2>1, <2>2
  <1>6. \A i \in WordsIn(n + 1) : i \in Nat
    BY DEF WordsIn
  <1> QED BY <1>1, <1>2, <1>4, <1>5, <1>6 DEF Found

LEMMA FoundBlank ==
  ASSUME NEW n \in Nat, Found(n), line[n + 1] = Blank
  PROVE  Found(n + 1)
  BY WordCount DEF Found

(* pos2 is the first blank at or after pos1. *)
LEMMA FirstBlank ==
  ASSUME line \in Seq(Word \cup {Blank}), pos1 \in Nat \ {0}, Blanks # {}
  PROVE  /\ pos2 \in pos1..Len(line) /\ line[pos2] = Blank
         /\ \A i \in pos1..(pos2 - 1) : line[i] # Blank
  <1>1. Len(line) \in Nat
    BY LenProperties
  <1>2. Blanks \in SUBSET Nat
    BY <1>1 DEF Blanks
  <1>3. \E i \in Blanks : \A j \in Blanks : i <= j
    BY <1>2, LeastNat
  <1>4. pos2 \in Blanks /\ \A j \in Blanks : pos2 <= j
    BY <1>3 DEF pos2
  <1> HIDE DEF pos2
  <1>5. pos2 \in pos1..Len(line) /\ line[pos2] = Blank
    BY <1>4 DEF Blanks
  <1>6. ASSUME NEW i \in pos1..(pos2 - 1) PROVE line[i] # Blank
    <2>1. i \in pos1..Len(line) /\ ~(pos2 <= i)
      BY <1>1, <1>5
    <2> QED BY <1>4, <2>1 DEF Blanks
  <1> QED BY <1>5, <1>6

LEMMA OneWord ==
  ASSUME NEW S, NEW s \in Seq(S), NEW i \in 1..Len(s)
  PROVE  SubSeq(s, i, i) = <<s[i]>>
  <1> DEFINE a == SubSeq(s, i, i)
             b == <<s[i]>>
  <1>1. Len(s) \in Nat /\ s[i] \in S
    BY LenProperties, ElementOfSeq
  <1>2. a \in Seq(S) /\ Len(a) = 1 /\ a[1] = s[i]
    BY <1>1
  <1>3. b \in Seq(S) /\ Len(b) = 1 /\ b[1] = s[i]
    BY <1>1
  <1> HIDE DEF a, b
  <1>4. Len(a) = Len(b) /\ \A j \in 1..Len(a) : a[j] = b[j]
    BY <1>2, <1>3
  <1>5. a = b
    BY <1>2, <1>3, <1>4, SeqEqual
  <1> QED BY <1>5 DEF a, b

(* The line is done with. *)
LEMMA Cleared ==
  ASSUME line' = <<>>, pos1' = 1, cmds' = <<>>, stage' \in {"prompt", "walk"}
  PROVE  /\ LineInv' /\ ParseInv' /\ CmdsAreWords'
         /\ line' \in Seq(Word \cup {Blank}) /\ pos1' \in 1..(MaxLine + 1)
         /\ cmds' \in Seq(Seq(Word))
  <1>1. Len(line') = 0 /\ MaxLine \in Nat
    BY PromptAssumption
  <1> QED BY <1>1 DEF LineInv, ParseInv, CmdsAreWords

-----------------------------------------------------------------------------
(* main and dbgcmd_parser. *)

LEMMA GetlineStep == Inv /\ getline => Inv'
  <1> SUFFICES ASSUME Inv, getline PROVE Inv'
    OBVIOUS
  <1>1. /\ pos1' = 1 /\ cmds' = <<>> /\ out' = NoAnswer /\ stage' \in {"parse", "exited"}
        /\ UNCHANGED <<running, text, regs, tar_addr, listed, turn, size, typed>>
        /\ line' \in Line \/ (line' = line /\ stage' = "exited")
    BY DEF getline, walkVars
  <1>2. /\ line' \in Seq(Word \cup {Blank}) /\ Len(line') \in Nat /\ Len(line') <= MaxLine
        /\ \A i \in 1..(Len(line') - 1) : line'[i] = Blank \/ line'[i + 1] = Blank
    BY <1>1, LineFacts, LenProperties DEF Inv, TypeOK, LineInv
  <1>3. TypeOK'
    <2>1. pos1' \in 1..(MaxLine + 1) /\ cmds' \in Seq(Seq(Word))
      BY <1>1, PromptAssumption
    <2> QED BY <1>1, <1>2, <2>1 DEF Inv, TypeOK
  <1>4. ParseInv'
    <2>1. WordsIn(0)' = {}
      BY DEF WordsIn
    <2>2. Cardinality({}) = 0
      BY FS_EmptySet
    <2>3. Found(0)'
      BY <1>1, <2>1, <2>2 DEF Found
    <2> QED BY <1>1, <1>2, <2>3 DEF ParseInv
  <1>5. LineInv' /\ CmdsAreWords' /\ WalkInv'
    BY <1>1, <1>2 DEF LineInv, CmdsAreWords, WalkInv
  <1>6. RegInv' /\ OutInv'
    BY <1>1 DEF Inv, RegInv, OutInv, NoAnswer
  <1> QED BY <1>3, <1>4, <1>5, <1>6 DEF Inv

(* What a turn of the loop of dbgcmd_parser leaves alone. *)
LEMMA ParserElse ==
  ASSUME Inv, dbgcmd_parser
  PROVE  /\ line' = line /\ stage = "parse" /\ stage' \in {"parse", "run"}
         /\ LineInv' /\ RegInv' /\ OutInv' /\ WalkInv'
         /\ (pos1' \in 1..(MaxLine + 1) /\ cmds' \in Seq(Seq(Word))) => TypeOK'
  <1>1. /\ stage = "parse" /\ stage' \in {"parse", "run"}
        /\ UNCHANGED <<line, running, text, regs, out, tar_addr, listed, turn, size, typed>>
    BY DEF dbgcmd_parser, walkVars
  <1>2. out = NoAnswer
    BY <1>1 DEF Inv, OutInv
  <1>3. LineInv' /\ RegInv' /\ OutInv' /\ WalkInv'
    BY <1>1, <1>2 DEF Inv, LineInv, RegInv, OutInv, NoAnswer, WalkInv
  <1>4. (pos1' \in 1..(MaxLine + 1) /\ cmds' \in Seq(Seq(Word))) => TypeOK'
    BY <1>1 DEF Inv, TypeOK
  <1> QED BY <1>1, <1>3, <1>4

LEMMA ParserStep == Inv /\ dbgcmd_parser => Inv'
  <1> SUFFICES ASSUME Inv, dbgcmd_parser PROVE Inv'
    OBVIOUS
  <1>1. /\ line' = line /\ stage = "parse" /\ stage' \in {"parse", "run"}
        /\ LineInv' /\ RegInv' /\ OutInv' /\ WalkInv'
        /\ (pos1' \in 1..(MaxLine + 1) /\ cmds' \in Seq(Seq(Word))) => TypeOK'
    BY ParserElse
  <1>2. /\ line \in Seq(Word \cup {Blank}) /\ cmds \in Seq(Seq(Word)) /\ MaxLine \in Nat
        /\ Len(line) \in Nat /\ Len(line) <= MaxLine
        /\ \A i \in 1..Len(line) : line[i] \in Word \cup {Blank}
    BY LenProperties, ElementOfSeq, PromptAssumption DEF Inv, TypeOK, LineInv
  <1>3. PICK m \in Nat \ {0} : m = pos1
    BY <1>2 DEF Inv, TypeOK
  <1>4. /\ m <= Len(line) + 1 /\ (m > 1 => line[m - 1] = Blank) /\ Found(m - 1)
    BY <1>1, <1>3 DEF Inv, ParseInv
  <1>5. ASSUME m + 1 <= Len(line), line[m] # Blank PROVE line[m + 1] = Blank
    <2>1. m \in 1..(Len(line) - 1)
      BY <1>2, <1>5
    <2> QED BY <1>5, <2>1 DEF Inv, LineInv
  <1>6. ASSUME m <= Len(line), line[m] # Blank
        PROVE  SubSeq(line, m, m) = <<line[m]>> /\ line[m] \in Word
    BY <1>2, <1>6, OneWord
  <1>7. ASSUME Blanks # {} PROVE Inv'
    <2>1. /\ pos2 \in m..Len(line) /\ line[pos2] = Blank
          /\ \A i \in m..(pos2 - 1) : line[i] # Blank
      BY <1>2, <1>3, <1>7, FirstBlank
    <2>2. Cut /\ stage' = "parse"
      BY <1>1, <1>7 DEF dbgcmd_parser
    <2>3. Len(SubSeq(line, m, pos2 - 1)) = pos2 - m
      BY <1>2, <2>1, SubSeqProperties
    <2> DEFINE e == pos2
    <2>4. e \in Nat /\ e >= m /\ e <= Len(line) /\ m <= Len(line)
      BY <1>2, <2>1
    <2>5. CASE SubSeq(line, m, e - 1) = <<>>
      <3>1. e = m
        BY <2>3, <2>4, <2>5
      <3>2. pos1' = m + 1 /\ cmds' = cmds
        BY <1>3, <2>2, <2>5 DEF Cut
      <3>3. Found(m)
        <4>1. (m - 1) + 1 = m
          OBVIOUS
        <4> QED BY <1>4, <2>1, <3>1, <4>1, FoundBlank
      <3>4. Found(m)'
        BY <1>1, <3>2, <3>3 DEF Found, WordsIn
      <3>5. ParseInv'
        <4>1. pos1' - 1 = m /\ pos1' <= Len(line') + 1 /\ line'[pos1' - 1] = Blank
          BY <1>1, <1>2, <2>1, <2>4, <3>1, <3>2
        <4> QED BY <3>4, <4>1 DEF ParseInv
      <3>6. TypeOK' /\ CmdsAreWords'
        BY <1>1, <1>2, <2>2, <2>4, <3>2 DEF CmdsAreWords
      <3> QED BY <1>1, <3>5, <3>6 DEF Inv
    <2>6. CASE SubSeq(line, m, e - 1) # <<>>
      <3>1. e # m
        BY <1>2, <2>3, <2>4, <2>6, EmptySeq, SubSeqProperties
      <3>2. line[m] # Blank
        BY <2>1, <2>4, <3>1
      <3>3. e = m + 1
        <4>1. m + 1 <= Len(line)
          BY <1>2, <2>4, <3>1
        <4>2. line[m + 1] = Blank
          BY <1>5, <3>2, <4>1
        <4> QED BY <2>1, <2>4, <3>1, <4>2
      <3>4. pos1' = m + 2 /\ cmds' = Append(cmds, <<line[m]>>) /\ line[m] \in Word
        <4>1. pos1' = e + 1 /\ cmds' = Append(cmds, SubSeq(line, m, e - 1))
          BY <1>3, <2>2, <2>6 DEF Cut
        <4>2. e - 1 = m /\ e + 1 = m + 2
          BY <3>3
        <4> QED BY <1>6, <2>4, <3>2, <4>1, <4>2
      <3>5. Found(m)' /\ cmds' \in Seq(Seq(Word))
        <4>1. (m - 1) + 1 = m /\ m - 1 \in Nat
          OBVIOUS
        <4> QED BY <1>1, <1>2, <1>4, <3>2, <3>4, <4>1, FoundWord
      <3>6. line'[m + 1] = Blank
        BY <1>1, <2>1, <3>3
      <3>7. Found(m + 1)'
        <4>1. WordsIn(m + 1)' = WordsIn(m)'
          BY <3>6 DEF WordsIn
        <4> QED BY <3>5, <4>1 DEF Found
      <3>8. ParseInv'
        <4>1. pos1' - 1 = m + 1 /\ pos1' <= Len(line') + 1
          BY <1>1, <1>2, <2>4, <3>3, <3>4
        <4> QED BY <3>6, <3>7, <4>1 DEF ParseInv
      <3>9. TypeOK' /\ CmdsAreWords'
        BY <1>1, <1>2, <2>2, <2>4, <3>3, <3>4, <3>5 DEF CmdsAreWords
      <3> QED BY <1>1, <3>8, <3>9 DEF Inv
    <2> QED BY <2>5, <2>6
  <1>8. ASSUME Blanks = {} PROVE Inv'
    <2>1. stage' = "run" /\ pos1' = m /\ cmds' = Append(cmds, SubSeq(line, m, Len(line)))
      BY <1>3, <1>8 DEF dbgcmd_parser
    <2>2. \A i \in m..Len(line) : line[i] # Blank
      BY <1>3, <1>8 DEF Blanks
    <2>3. ParseInv'
      BY <2>1 DEF ParseInv
    <2>4. m \in 1..(MaxLine + 1)
      BY <1>2, <1>4
    <2>5. CASE m = Len(line) + 1
      <3>1. SubSeq(line, m, Len(line)) = <<>>
        BY <1>2, <2>5
      <3>2. /\ cmds' \in Seq(Seq(Word)) /\ Len(cmds) \in Nat /\ Len(cmds') = Len(cmds) + 1
            /\ \A k \in 1..Len(cmds) : cmds'[k] = cmds[k]
            /\ cmds'[Len(cmds) + 1] = <<>>
        <4>1. <<>> \in Seq(Word)
          OBVIOUS
        <4> QED BY <1>2, <2>1, <3>1, <4>1, AppendProperties, LenProperties
      <3>3. line = <<>> \/ line[Len(line)] = Blank
        <4>1. CASE Len(line) = 0
          BY <1>2, <4>1, EmptySeq
        <4>2. CASE Len(line) # 0
          BY <1>2, <1>4, <2>5, <4>2
        <4> QED BY <4>1, <4>2
      <3>4. Found(Len(line))
        BY <1>2, <1>4, <2>5
      <3>5. ASSUME NEW i \in WordsIn(Len(line)) PROVE cmds'[Cardinality(WordsIn(i))] = <<line[i]>>
        <4>1. Cardinality(WordsIn(i)) \in 1..Len(cmds)
          BY <1>2, <3>4, WordNumber DEF Found
        <4> QED BY <3>2, <3>4, <4>1 DEF Found
      <3>6. CmdsAreWords'
        <4>1. \A k \in Nat : WordsIn(k)' = WordsIn(k)
          BY <1>1 DEF WordsIn
        <4>2. \A i \in WordsIn(Len(line)) : i \in Nat
          BY DEF WordsIn
        <4>3. Len(cmds) = Cardinality(WordsIn(Len(line)))
          BY <3>4 DEF Found
        <4> QED BY <1>1, <1>2, <3>2, <3>3, <3>5, <4>1, <4>2, <4>3 DEF CmdsAreWords
      <3> QED BY <1>1, <2>1, <2>3, <2>4, <3>2, <3>6 DEF Inv
    <2>6. CASE m # Len(line) + 1
      <3>1. m = Len(line) /\ line[m] # Blank
        <4>1. m <= Len(line) /\ line[m] # Blank
          BY <1>2, <1>4, <2>2, <2>6
        <4>2. ~(m + 1 <= Len(line))
          BY <1>2, <1>5, <2>2, <4>1
        <4> QED BY <1>2, <4>1, <4>2
      <3>2. cmds' = Append(cmds, <<line[m]>>) /\ line[m] \in Word
        BY <1>2, <1>6, <2>1, <3>1
      <3>3. Found(m)' /\ cmds' \in Seq(Seq(Word))
        <4>1. (m - 1) + 1 = m /\ m - 1 \in Nat
          OBVIOUS
        <4> QED BY <1>1, <1>2, <1>4, <3>1, <3>2, <4>1, FoundWord
      <3>4. CmdsAreWords'
        <4>1. Len(line') = m /\ line' # <<>> /\ line'[m] # Blank
          BY <1>1, <1>2, <3>1
        <4> QED BY <3>3, <4>1 DEF CmdsAreWords, Found
      <3> QED BY <1>1, <2>1, <2>3, <2>4, <3>3, <3>4 DEF Inv
    <2> QED BY <2>5, <2>6
  <1> QED BY <1>7, <1>8

-----------------------------------------------------------------------------
(* Commands. *)

(* get: the answer is what the register holds. *)
LEMMA GetStep == Inv /\ get_single_reg => Inv'
  <1> SUFFICES ASSUME Inv, get_single_reg PROVE Inv'
    OBVIOUS
  <1>1. /\ stage' = "prompt" /\ line' = <<>> /\ pos1' = 1 /\ cmds' = <<>>
        /\ UNCHANGED <<running, text, regs, tar_addr, listed, turn, size, typed>>
    BY DEF get_single_reg, Back, walkVars
  <1>2. /\ LineInv' /\ ParseInv' /\ CmdsAreWords'
        /\ line' \in Seq(Word \cup {Blank}) /\ pos1' \in 1..(MaxLine + 1)
        /\ cmds' \in Seq(Seq(Word))
    BY <1>1, Cleared
  <1>3. TypeOK' /\ RegInv' /\ WalkInv'
    BY <1>1, <1>2 DEF Inv, TypeOK, RegInv, WalkInv
  <1>4. OutInv'
    <2>1. CASE out' = NoAnswer
      BY <2>1 DEF OutInv, NoAnswer
    <2>2. CASE out' # NoAnswer
      <3>1. \E r \in Reg : cmds[2] = <<r>>
        BY <2>2 DEF get_single_reg
      <3>2. cmds[2][1] \in Reg
        BY <3>1
      <3>3. out' = [reg |-> cmds[2][1],
                    val |-> IF regs[cmds[2][1]] = Modulus - 1 THEN Silent ELSE Signed(regs[cmds[2][1]])]
        BY <2>2 DEF get_single_reg
      <3> DEFINE r == cmds[2][1]
      <3> HIDE DEF r
      <3>4. /\ r \in Reg /\ out'.reg = r
            /\ out'.val = IF regs[r] = Modulus - 1 THEN Silent ELSE Signed(regs[r])
        BY <3>2, <3>3 DEF r
      <3>5. Signed(regs[out.reg])' = Signed(regs[r])
        BY <1>1, <3>4 DEF Signed
      <3> QED BY <1>1, <3>4, <3>5 DEF OutInv
    <2> QED BY <2>1, <2>2
  <1> QED BY <1>2, <1>3, <1>4 DEF Inv

(* set: the register keeps the number in its unsigned form, or what it     *)
(* held when the number is 0.                                              *)
LEMMA SetStep == Inv /\ set_reg => Inv'
  <1> SUFFICES ASSUME Inv, set_reg PROVE Inv'
    OBVIOUS
  <1>1. /\ stage = "run" /\ stage' = "prompt" /\ line' = <<>> /\ pos1' = 1 /\ cmds' = <<>>
        /\ UNCHANGED <<running, text, out, tar_addr, listed, turn, size>>
    BY DEF set_reg, Is, Back, walkVars
  <1>2. /\ LineInv' /\ ParseInv' /\ CmdsAreWords'
        /\ line' \in Seq(Word \cup {Blank}) /\ pos1' \in 1..(MaxLine + 1)
        /\ cmds' \in Seq(Seq(Word))
    BY <1>1, Cleared
  <1>3. out' = NoAnswer
    BY <1>1 DEF Inv, OutInv
  <1>4. OutInv' /\ WalkInv'
    BY <1>1, <1>3 DEF OutInv, WalkInv, NoAnswer
  <1>5. /\ regs \in [Reg -> ULL] /\ DOMAIN typed \subseteq Reg
        /\ \A r \in DOMAIN typed : typed[r] \in Int
        /\ \A r \in DOMAIN typed : typed[r] # 0 => regs[r] = Clamp(typed[r]) % Modulus
    BY DEF Inv, TypeOK, RegInv
  <1>6. /\ regs' \in [Reg -> ULL] /\ DOMAIN typed' \subseteq Reg
        /\ \A r \in DOMAIN typed' : typed'[r] \in Int
        /\ \A r \in DOMAIN typed' : typed'[r] # 0 => regs'[r] = Clamp(typed'[r]) % Modulus
    <2>1. CASE ~Accepted
      <3>1. UNCHANGED <<regs, typed>>
        BY <2>1 DEF set_reg
      <3> QED BY <1>5, <3>1
    <2>2. CASE Accepted
      <3> DEFINE x == cmds[2][1]
                 n == Typed(cmds[3])
                 v == strtol(cmds[3])
      <3>1. /\ regs' = [regs EXCEPT ![x] = IF v = 0 THEN regs[x] ELSE v]
            /\ typed' = [q \in DOMAIN typed \cup {x} |-> IF q = x THEN n ELSE typed[q]]
        BY <2>2 DEF set_reg
      <3>2. x \in Reg
        BY <2>2 DEF Accepted
      <3>3. n \in Int /\ v \in ULL
        BY StrtolType
      <3>4. v = Clamp(n) % Modulus
        BY DEF strtol
      <3>5. n # 0 => v # 0
        BY <3>3, <3>4, ClampFacts
      <3> HIDE DEF x, n, v
      <3>6. regs' \in [Reg -> ULL] /\ DOMAIN typed' = DOMAIN typed \cup {x}
        BY <1>5, <3>1, <3>2, <3>3
      <3>7. /\ typed'[x] = n /\ (v # 0 => regs'[x] = v)
            /\ \A q \in DOMAIN typed : q # x => typed'[q] = typed[q] /\ regs'[q] = regs[q]
        BY <1>5, <3>1, <3>2
      <3>8. ASSUME NEW r \in DOMAIN typed'
            PROVE  typed'[r] \in Int /\ (typed'[r] # 0 => regs'[r] = Clamp(typed'[r]) % Modulus)
        <4>1. CASE r = x
          BY <3>3, <3>4, <3>5, <3>7, <4>1
        <4>2. CASE r # x
          BY <1>5, <3>6, <3>7, <4>2
        <4> QED BY <4>1, <4>2
      <3> QED BY <1>5, <3>2, <3>6, <3>8
    <2> QED BY <2>1, <2>2
  <1>7. TypeOK' /\ RegInv'
    BY <1>1, <1>2, <1>6 DEF Inv, TypeOK, RegInv
  <1> QED BY <1>2, <1>4, <1>7 DEF Inv

(* disasm starts at an address of .text, or is refused. *)
LEMMA DisasmStep == Inv /\ disasm => Inv'
  <1> SUFFICES ASSUME Inv, disasm PROVE Inv'
    OBVIOUS
  <1>1. /\ stage = "run" /\ stage' \in {"prompt", "walk"} /\ line' = <<>> /\ pos1' = 1 /\ cmds' = <<>>
        /\ UNCHANGED <<running, text, regs, out, typed>>
    BY DEF disasm, Is, Back
  <1>2. /\ LineInv' /\ ParseInv' /\ CmdsAreWords'
        /\ line' \in Seq(Word \cup {Blank}) /\ pos1' \in 1..(MaxLine + 1)
        /\ cmds' \in Seq(Seq(Word))
    BY <1>1, Cleared
  <1>3. out' = NoAnswer
    BY <1>1 DEF Inv, OutInv
  <1>4. OutInv' /\ RegInv'
    BY <1>1, <1>3 DEF Inv, OutInv, RegInv, NoAnswer
  <1>5. tar_addr' \in ULL /\ turn' \in 0..N_DISASM_INS /\ WalkInv'
    <2>1. CASE stage' = "prompt"
      <3>1. UNCHANGED <<tar_addr, turn>>
        BY <2>1 DEF disasm, walkVars
      <3> QED BY <2>1, <3>1 DEF Inv, TypeOK, WalkInv
    <2>2. CASE stage' = "walk"
      <3>1. /\ strtol(cmds[2]) \in Text
            /\ size' \in [Text -> 0..WordSize]
            /\ tar_addr' = strtol(cmds[2]) /\ listed' = <<>> /\ turn' = 0
        BY <2>2 DEF disasm, Listable, Back
      <3>2. Text' = Text /\ tar_addr' \in Text'
        BY <1>1, <3>1 DEF Text
      <3>3. tar_addr' \in ULL /\ turn' \in 0..N_DISASM_INS
        BY <3>1, StrtolType, PromptAssumption
      <3>4. Listing'
        <4>1. Len(listed') = 0
          BY <3>1
        <4> QED BY <3>1, <3>2, <4>1 DEF Listing
      <3>5. size' \in [Text' -> 0..WordSize] /\ listed' \in Seq(ULL)
        BY <3>1, <3>2
      <3> QED BY <3>3, <3>4, <3>5 DEF WalkInv
    <2> QED BY <1>1, <2>1, <2>2
  <1>6. TypeOK'
    BY <1>1, <1>2, <1>5 DEF Inv, TypeOK
  <1> QED BY <1>2, <1>4, <1>5, <1>6 DEF Inv

(* A turn of disasm: where all instructions decode, it lists the one after *)
(* the last.                                                               *)
LEMMA WalkStep == Inv /\ Walk => Inv'
  <1> SUFFICES ASSUME Inv, Walk PROVE Inv'
    OBVIOUS
  <1>1. /\ stage = "walk" /\ turn < N_DISASM_INS /\ tar_addr \in Text /\ turn' = turn + 1
        /\ listed' = (IF Decodes(tar_addr) THEN Append(listed, tar_addr) ELSE listed)
        /\ tar_addr' = (tar_addr + translate(tar_addr)) % Modulus
        /\ UNCHANGED <<stage, line, pos1, cmds, running, text, regs, out, size, typed>>
    BY DEF Walk, More, parseVars
  <1>2. /\ tar_addr \in ULL /\ turn \in Nat /\ turn \in 0..N_DISASM_INS /\ N_DISASM_INS \in Nat
        /\ WordSize \in Nat /\ Text' = Text
    BY <1>1, PromptAssumption DEF Inv, TypeOK, Text
  <1>3. size \in [Text -> 0..WordSize] /\ listed \in Seq(ULL) /\ Len(listed) \in Nat
    BY <1>1, LenProperties DEF Inv, WalkInv
  <1>4. size[tar_addr] \in Nat
    BY <1>1, <1>2, <1>3
  <1>5. tar_addr' \in ULL
    <2>1. translate(tar_addr) \in Int /\ tar_addr \in Int
      BY <1>2, <1>4, Width DEF translate
    <2> QED BY <1>1, <2>1, Wraps
  <1>6. listed' \in Seq(ULL)
    BY <1>1, <1>2, <1>3, AppendProperties
  <1>7. TypeOK'
    <2>1. turn' \in 0..N_DISASM_INS
      BY <1>1, <1>2
    <2> QED BY <1>1, <1>5, <2>1 DEF Inv, TypeOK
  <1>8. LineInv' /\ ParseInv' /\ CmdsAreWords' /\ RegInv'
    BY <1>1 DEF Inv, LineInv, ParseInv, CmdsAreWords, RegInv
  <1>9. OutInv'
    BY <1>1 DEF Inv, OutInv, NoAnswer
  <1>10. ASSUME \A a \in Text : size[a] \in 1..(WordSize - 1) PROVE Listing'
    <2>1. Decodes(tar_addr) /\ translate(tar_addr) = size[tar_addr]
      BY <1>1, <1>10 DEF Decodes, translate, CodeBytes
    <2>2. /\ listed' = Append(listed, tar_addr)
          /\ tar_addr' = (tar_addr + size[tar_addr]) % Modulus
      BY <1>1, <2>1
    <2>3. Listing
      BY <1>1, <1>10 DEF Inv, WalkInv
    <2>4. /\ Len(listed') = Len(listed) + 1 /\ listed'[Len(listed) + 1] = tar_addr
          /\ \A i \in 1..Len(listed) : listed'[i] = listed[i]
      BY <1>2, <1>3, <2>2, AppendProperties
    <2>5. Len(listed') = turn' /\ listed' # <<>>
      BY <1>1, <1>3, <2>3, <2>4 DEF Listing
    <2>6. ASSUME NEW i \in 1..Len(listed') PROVE listed'[i] \in Text
      <3>1. CASE i = Len(listed) + 1
        BY <1>1, <2>4, <3>1
      <3>2. CASE i \in 1..Len(listed)
        BY <2>3, <2>4, <3>2 DEF Listing
      <3> QED BY <1>3, <2>4, <3>1, <3>2
    <2>7. ASSUME NEW i \in 1..(Len(listed') - 1)
          PROVE  listed'[i + 1] = (listed'[i] + size[listed'[i]]) % Modulus
      <3>1. CASE i = Len(listed)
        <4>1. listed # <<>>
          BY <1>3, <3>1
        <4>2. tar_addr = (listed[i] + size[listed[i]]) % Modulus
          BY <2>3, <3>1, <4>1 DEF Listing
        <4> QED BY <1>3, <2>4, <3>1, <4>2
      <3>2. CASE i \in 1..(Len(listed) - 1)
        <4>1. i \in 1..Len(listed) /\ i + 1 \in 1..Len(listed)
          BY <1>3, <3>2
        <4>2. listed[i + 1] = (listed[i] + size[listed[i]]) % Modulus
          BY <2>3, <3>2 DEF Listing
        <4> QED BY <2>4, <4>1, <4>2
      <3> QED BY <1>3, <2>4, <3>1, <3>2
    <2>8. LET a == listed'[Len(listed')] IN tar_addr' = (a + size[a]) % Modulus
      BY <2>2, <2>4
    <2> QED BY <1>1, <1>2, <2>5, <2>6, <2>7, <2>8 DEF Listing
  <1>11. WalkInv'
    BY <1>1, <1>2, <1>3, <1>6, <1>10 DEF WalkInv
  <1> QED BY <1>7, <1>8, <1>9, <1>11 DEF Inv

LEMMA RestStep == Inv /\ (WalkEnds \/ Exit \/ OtherCommand) => Inv'
  <1> SUFFICES ASSUME Inv, WalkEnds \/ Exit \/ OtherCommand PROVE Inv'
    OBVIOUS
  <1>1. /\ stage \in {"run", "walk"}
        /\ UNCHANGED <<running, text, regs, out, typed>>
        /\ UNCHANGED <<tar_addr, turn>> \/ (tar_addr' = 0 /\ turn' = 0)
    BY DEF WalkEnds, Exit, OtherCommand, Is, walkVars
  <1>2. CASE stage' = "prompt" /\ line' = <<>> /\ pos1' = 1 /\ cmds' = <<>>
    <2>1. /\ LineInv' /\ ParseInv' /\ CmdsAreWords'
          /\ line' \in Seq(Word \cup {Blank}) /\ pos1' \in 1..(MaxLine + 1)
          /\ cmds' \in Seq(Seq(Word))
      BY <1>2, Cleared
    <2>2. tar_addr' \in ULL /\ turn' \in 0..N_DISASM_INS
      <3>1. 0 \in ULL /\ 0 \in 0..N_DISASM_INS
        BY Width, PromptAssumption
      <3>2. tar_addr \in ULL /\ turn \in 0..N_DISASM_INS
        BY DEF Inv, TypeOK
      <3>3. CASE UNCHANGED <<tar_addr, turn>>
        BY <3>2, <3>3
      <3>4. CASE tar_addr' = 0 /\ turn' = 0
        BY <3>1, <3>4
      <3> QED BY <1>1, <3>3, <3>4
    <2>3. out' = NoAnswer
      BY <1>1 DEF Inv, OutInv
    <2>4. TypeOK' /\ RegInv'
      BY <1>1, <1>2, <2>1, <2>2 DEF Inv, TypeOK, RegInv
    <2>5. OutInv' /\ WalkInv'
      BY <1>2, <2>3 DEF OutInv, WalkInv, NoAnswer
    <2> QED BY <2>1, <2>4, <2>5 DEF Inv
  <1>3. CASE stage' = "exited" /\ UNCHANGED <<line, pos1, cmds, tar_addr, turn>>
    <2>1. out' = NoAnswer
      BY <1>1 DEF Inv, OutInv
    <2>2. TypeOK' /\ RegInv'
      BY <1>1, <1>3 DEF Inv, TypeOK, RegInv
    <2>3. LineInv' /\ ParseInv' /\ CmdsAreWords' /\ OutInv' /\ WalkInv'
      BY <1>3, <2>1 DEF Inv, LineInv, ParseInv, CmdsAreWords, OutInv, WalkInv, NoAnswer
    <2> QED BY <2>2, <2>3 DEF Inv
  <1> QED BY <1>2, <1>3 DEF WalkEnds, Exit, OtherCommand, Back, parseVars, walkVars

-----------------------------------------------------------------------------
(* The specification. *)

(* elf64_parser yields addresses, with or without a .text. *)
LEMMA TextType ==
  ASSUME NEW f \in Files
  PROVE  elf64_parser(f) \in [begin : ULL, end : ULL]
  <1> DEFINE found == {i \in 1..Len(f) : f[i].name = ".text"}
             k == CHOOSE i \in found : \A j \in found : i <= j
             s == f[k]
  <1>1. f \in Seq(Section) /\ Len(f) \in Nat
    BY PromptAssumption, LenProperties
  <1>2. CASE found = {}
    <2>1. elf64_parser(f) = [begin |-> Modulus - 1, end |-> Modulus - 1]
      BY <1>2 DEF elf64_parser, NoText
    <2>2. Modulus - 1 \in ULL
      BY Width
    <2> QED BY <2>1, <2>2
  <1>3. CASE found # {}
    <2>1. found \in SUBSET Nat
      BY <1>1
    <2>2. k \in found
      <3>1. \E i \in found : \A j \in found : i <= j
        BY <1>3, <2>1, LeastNat
      <3> QED BY <3>1
    <2>3. elf64_parser(f) = [begin |-> s.addr, end |-> (s.addr + s.size - 1) % Modulus]
      BY <1>3 DEF elf64_parser
    <2>4. k \in 1..Len(f)
      BY <2>2
    <2>5. s \in Section
      BY <1>1, <2>4, ElementOfSeq
    <2>6. s.addr \in ULL /\ s.size \in ULL
      BY <2>5 DEF Section
    <2>7. s.addr + s.size - 1 \in Int
      BY <2>6, Width
    <2> HIDE DEF s
    <2> QED BY <2>3, <2>6, <2>7, Wraps
  <1> QED BY <1>2, <1>3

LEMMA Initially == Init => Inv
  <1> SUFFICES ASSUME Init PROVE Inv
    OBVIOUS
  <1>1. /\ stage = "prompt" /\ line = <<>> /\ pos1 = 1 /\ cmds = <<>> /\ running \in BOOLEAN
        /\ regs \in [Reg -> {0}] /\ typed = <<>> /\ out = NoAnswer
        /\ tar_addr = 0 /\ turn = 0 /\ text \in [begin : ULL, end : ULL]
    <2>1. NoText \in [begin : ULL, end : ULL]
      BY Width DEF NoText
    <2> QED BY <2>1, TextType DEF Init
  <1>2. 0 \in ULL /\ Len(line) = 0 /\ MaxLine \in Nat /\ N_DISASM_INS \in Nat
    BY <1>1, Width, PromptAssumption
  <1>3. TypeOK
    <2>1. line \in Seq(Word \cup {Blank}) /\ cmds \in Seq(Seq(Word))
      BY <1>1
    <2>2. regs \in [Reg -> ULL] /\ DOMAIN typed = {}
      BY <1>1, <1>2
    <2>3. pos1 \in 1..(MaxLine + 1) /\ turn \in 0..N_DISASM_INS
      BY <1>1, <1>2
    <2> QED BY <1>1, <1>2, <2>1, <2>2, <2>3 DEF TypeOK
  <1>4. LineInv /\ ParseInv /\ CmdsAreWords /\ RegInv /\ OutInv /\ WalkInv
    BY <1>1, <1>2 DEF LineInv, ParseInv, CmdsAreWords, RegInv, OutInv, WalkInv
  <1> QED BY <1>3, <1>4 DEF Inv

LEMMA Stutter == Inv /\ UNCHANGED vars => Inv'
  <1> SUFFICES ASSUME Inv, UNCHANGED vars PROVE Inv'
    OBVIOUS
  <1>1. UNCHANGED <<stage, line, pos1, cmds, running, text, regs, out, tar_addr, listed, turn, size, typed>>
    BY DEF vars, parseVars, walkVars
  <1>2. TypeOK' /\ LineInv' /\ RegInv' /\ OutInv'
    BY <1>1 DEF Inv, TypeOK, LineInv, RegInv, OutInv, NoAnswer, Signed
  <1>3. ParseInv' /\ CmdsAreWords'
    BY <1>1 DEF Inv, ParseInv, Found, CmdsAreWords, WordsIn
  <1>4. WalkInv'
    BY <1>1 DEF Inv, WalkInv, Listing, Text
  <1> QED BY <1>2, <1>3, <1>4 DEF Inv

(* Words found, registers, answers and listing are as Inv says after every *)
(* turn of a loop and every command.                                       *)
THEOREM Invariance == Spec => []Inv
  <1>1. Inv /\ [Next]_vars => Inv'
    BY GetlineStep, ParserStep, GetStep, SetStep, DisasmStep, WalkStep, RestStep, Stutter
       DEF Next, Command, Done
  <1> QED BY <1>1, Initially, PTL DEF Spec

(* pos1 stays within the line, words hold no blanks, and registers and     *)
(* addresses are numbers of unsigned long long.                            *)
THEOREM TypeCorrect == Spec => []TypeOK
  <1>1. Inv => TypeOK
    BY DEF Inv
  <1> QED BY <1>1, Invariance, PTL

(* dbgcmd_parser returns the words of every line, in order, and one empty  *)
(* word after a trailing blank or for an empty line.                       *)
THEOREM WordsFound == Spec => []CmdsAreWords
  <1>1. Inv => CmdsAreWords
    BY DEF Inv
  <1> QED BY <1>1, Invariance, PTL

(* get prints the number of the last set of the register, at the limit of  *)
(* long where it is beyond it and nothing for -1, after the conversions of *)
(* strtol, reg_handler and the format, as long as that number is not the 0 *)
(* that reg_handler takes for a read.                                      *)
THEOREM GetShowsSet == Spec => []GetAnswersSet
  <1>1. Inv => GetAnswersSet
    <2> SUFFICES ASSUME Inv, out # NoAnswer, out.reg \in DOMAIN typed, typed[out.reg] # 0
                 PROVE  out.val = IF Clamp(typed[out.reg]) = -1 THEN Silent ELSE Clamp(typed[out.reg])
      BY DEF GetAnswersSet
    <2>1. out.val = IF regs[out.reg] = Modulus - 1 THEN Silent ELSE Signed(regs[out.reg])
      BY DEF Inv, OutInv
    <2>2. typed[out.reg] \in Int /\ regs[out.reg] = Clamp(typed[out.reg]) % Modulus
      BY DEF Inv, TypeOK, RegInv
    <2>3. Clamp(typed[out.reg]) \in LONG_MIN..LONG_MAX
      BY <2>2, ClampFacts
    <2> QED BY <2>1, <2>2, <2>3, SignedBack
  <1> QED BY <1>1, Invariance, PTL

(* When every instruction of .text fits in the bytes translate is given,   *)
(* disasm lists successive instructions of .text and stops only after      *)
(* N_DISASM_INS of them or at the end of .text.                            *)
THEOREM ListingCorrect == Spec => []ListingIsProgram
  <1>1. Inv => ListingIsProgram
    <2> SUFFICES ASSUME Inv, stage = "walk", \A a \in Text : size[a] \in 1..(WordSize - 1)
                 PROVE  /\ \A i \in 1..(Len(listed) - 1) :
                             listed[i + 1] = (listed[i] + size[listed[i]]) % Modulus
                        /\ \A i \in 1..Len(listed) : listed[i] \in Text
                        /\ ~More => \/ Len(listed) = N_DISASM_INS
                                    \/ listed # <<>> /\ LET a == listed[Len(listed)]
                                                        IN  a + size[a] > text.end
      BY DEF ListingIsProgram
    <2>1. Listing /\ listed \in Seq(ULL) /\ Len(listed) \in Nat
      BY LenProperties DEF Inv, WalkInv
    <2>2. ASSUME ~More, Len(listed) # N_DISASM_INS
          PROVE  listed # <<>> /\ LET a == listed[Len(listed)] IN a + size[a] > text.end
      <3>1. tar_addr \notin Text
        <4>1. turn \in 0..N_DISASM_INS /\ N_DISASM_INS \in Nat /\ Len(listed) = turn
          BY <2>1, PromptAssumption DEF Inv, TypeOK, Listing
        <4> QED BY <2>2, <4>1 DEF More
      <3>2. listed # <<>>
        BY <2>1, <3>1 DEF Listing
      <3> DEFINE a == listed[Len(listed)]
      <3>3. a \in Text /\ tar_addr = (a + size[a]) % Modulus
        <4>1. Len(listed) \in 1..Len(listed)
          BY <2>1, <3>2, EmptySeq
        <4> QED BY <2>1, <3>2, <4>1 DEF Listing
      <3>4. text.begin \in ULL /\ text.end \in ULL /\ size[a] \in 1..(WordSize - 1) /\ WordSize \in Nat
        BY <3>3, PromptAssumption DEF Inv, TypeOK
      <3> HIDE DEF a
      <3>5. a + size[a] > text.end
        <4> SUFFICES ASSUME ~(a + size[a] > text.end) PROVE FALSE
          OBVIOUS
        <4>1. a \in Nat /\ a >= text.begin /\ a + size[a] <= text.end /\ a + size[a] \in Nat
          BY <3>3, <3>4, Width DEF Text
        <4>2. a + size[a] \in ULL
          BY <3>4, <4>1, Width
        <4>3. tar_addr = a + size[a]
          BY <3>3, <4>2, Fits
        <4>4. tar_addr \in text.begin..text.end
          BY <3>4, <4>1, <4>3, Width
        <4> QED BY <3>1, <4>4 DEF Text
      <3> QED BY <3>2, <3>5 DEF a
    <2> QED BY <2>1, <2>2 DEF Listing
  <1> QED BY <1>1, Invariance, PTL

-----------------------------------------------------------------------------
(* Termination. *)

(* How many steps a line may still take. *)
Work ==
  IF stage = "parse" THEN N_DISASM_INS + 3 + (Len(line) + 2 - pos1)
  ELSE IF stage = "run" THEN N_DISASM_INS + 3
  ELSE IF stage = "walk" THEN N_DISASM_INS + 1 - turn
  ELSE 0

(* What the loops count with. *)
LEMMA Counters ==
  ASSUME Inv
  PROVE  /\ N_DISASM_INS \in Nat /\ turn \in 0..N_DISASM_INS
         /\ Len(line) \in Nat /\ Len(line) <= MaxLine /\ MaxLine \in Nat /\ pos1 \in Nat \ {0}
         /\ stage = "parse" => pos1 <= Len(line) + 1
  <1>1. pos1 \in Nat \ {0}
    BY PromptAssumption DEF Inv, TypeOK
  <1> QED BY <1>1, PromptAssumption, LenProperties DEF Inv, TypeOK, LineInv, ParseInv

(* A turn of the loop of dbgcmd_parser, blank or word, moves pos1. *)
LEMMA ParserWorks ==
  ASSUME Inv, Inv', dbgcmd_parser
  PROVE  Work' \in 0..(Work - 1)
  <1>1. /\ N_DISASM_INS \in Nat /\ Len(line) \in Nat /\ pos1 \in Nat \ {0}
        /\ stage = "parse" /\ line' = line /\ pos1 <= Len(line) + 1
    BY Counters DEF dbgcmd_parser
  <1>2. CASE Blanks # {} /\ Cut /\ UNCHANGED stage
    <2>1. pos2 \in pos1..Len(line)
      BY <1>1, <1>2, FirstBlank DEF Inv, TypeOK
    <2> DEFINE e == pos2
    <2>2. e \in Nat /\ e >= pos1 /\ e <= Len(line)
      BY <1>1, <2>1
    <2>3. pos1' = pos1 + 1 \/ pos1' = e + 1
      BY <1>2 DEF Cut
    <2> HIDE DEF e
    <2>4. pos1' \in Nat /\ pos1' > pos1 /\ pos1' <= Len(line) + 1
      BY <1>1, <2>2, <2>3
    <2>5. Work = N_DISASM_INS + 3 + (Len(line) + 2 - pos1)
      BY <1>1 DEF Work
    <2>6. Work' = N_DISASM_INS + 3 + (Len(line) + 2 - pos1')
      BY <1>1, <1>2 DEF Work
    <2> QED BY <1>1, <2>4, <2>5, <2>6
  <1>3. CASE stage' = "run"
    BY <1>1, <1>3 DEF Work
  <1> QED BY <1>2, <1>3 DEF dbgcmd_parser

(* Every command ends or goes on with the walk of disasm, and a turn of    *)
(* the walk counts even when it moves back.                                *)
LEMMA CommandWorks ==
  ASSUME Inv, Inv', Command
  PROVE  Work' \in 0..(Work - 1)
  <1>1. N_DISASM_INS \in Nat /\ turn \in 0..N_DISASM_INS
    BY Counters
  <1>2. CASE Walk
    <2>1. stage = "walk" /\ stage' = "walk" /\ turn' = turn + 1 /\ turn < N_DISASM_INS
      BY <1>2 DEF Walk, More
    <2> QED BY <1>1, <2>1 DEF Work
  <1>3. CASE stage = "run" /\ stage' = "walk" /\ turn' = 0
    BY <1>1, <1>3 DEF Work
  <1>4. CASE stage \in {"run", "walk"} /\ stage' \in {"prompt", "exited"}
    <2>1. Work' = 0 /\ Work \in Nat /\ Work > 0
      BY <1>1, <1>4 DEF Work
    <2> QED BY <2>1
  <1>5. \/ Walk
        \/ stage = "run" /\ stage' = "walk" /\ turn' = 0
        \/ stage \in {"run", "walk"} /\ stage' \in {"prompt", "exited"}
    BY DEF Command, get_single_reg, set_reg, disasm, WalkEnds, Exit, OtherCommand, Is, Back
  <1> QED BY <1>2, <1>3, <1>4, <1>5

(* A line is answered within a number of steps that is fixed when it is    *)
(* read: getline alone raises Work, to at most MaxLine + N_DISASM_INS + 4, *)
(* and every other step lowers it, though dbgcmd_parser may meet blanks    *)
(* without end and the walk of disasm may go back where translate fails.   *)
THEOREM LineBounded ==
  Spec => [][IF getline THEN Work' <= MaxLine + N_DISASM_INS + 4
             ELSE Work' \in 0..(Work - 1)]_vars
  <1> DEFINE A == IF getline THEN Work' <= MaxLine + N_DISASM_INS + 4
                  ELSE Work' \in 0..(Work - 1)
  <1>1. Inv /\ Inv' /\ [Next]_vars => [A]_vars
    <2> SUFFICES ASSUME Inv, Inv', Next, vars' # vars PROVE A
      OBVIOUS
    <2>1. CASE getline
      <3>1. pos1' = 1 /\ stage' \in {"parse", "exited"}
        BY <2>1 DEF getline
      <3>2. N_DISASM_INS \in Nat /\ MaxLine \in Nat /\ Len(line') \in Nat /\ Len(line') <= MaxLine
        BY Counters, LenProperties DEF Inv, TypeOK, LineInv
      <3>3. Work' <= MaxLine + N_DISASM_INS + 4
        BY <3>1, <3>2 DEF Work
      <3> QED BY <2>1, <3>3
    <2>2. CASE ~getline /\ (dbgcmd_parser \/ Command)
      BY <2>2, ParserWorks, CommandWorks
    <2> QED BY <2>1, <2>2 DEF Next, Done
  <1>2. Spec => []Inv
    BY Invariance
  <1> QED BY <1>1, <1>2, PTL DEF Spec

=============================================================================
