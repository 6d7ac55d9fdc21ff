# Verification of the four programs of the repository

The repository holds four independent programs: `hw1`, a listing of open files;
`hw2`, a library-call logger; `hw3`, a small C library; `hw4`, a debugger. Each
talks to the kernel about things that change under its feet: another process, a
descriptor table shared by threads, signals, a program with foreign bytes in its
code. This project models those interactions in TLA+, checks them with TLC on
small instances and proves with TLAPS, for every size, what the runs check of the
four programs' safety.

## Inventory

### hw4: `sdb`, a ptrace debugger (the core of this project)

* **State** (`class debugger`): `state` (NOLOAD, LOADED, RUNNING),
  `last_cmd_is_set_rip`, the `.text` range, the table of break points `bptab`
  (a vector of address and saved word, which outlives the process). The kernel
  keeps the rest: the process, its instruction pointer and its code bytes.
* **Operations**: load, start, run, cont, si, set, break, delete, exit; and get,
  getregs, dump, disasm, vmmap, list, help, which read only. In front of them the
  loop of `main` and `dbgcmd_parser`, which cuts a line into words.
* **Interaction**: every handler drives the process with ptrace requests and
  blocks in `waitpid`. The process executes, traps, gets signals, exits or is
  killed while the debugger waits; at the prompt it can only be killed.
* **Hard**: int3 bytes are patched in and out around single steps, in words that
  overlap; the flag of `set rip` changes what `cont` does; the table is used for
  the next process; a stop is classified by `rip` alone. A start whose exec fails
  leaves two debuggers. Zero and -1 stand for something else than numbers, and
  disasm walks by what a disassembler that may fail returns.
* **Correct when**: memory and table agree, no break point is passed, a reported
  hit is a hit, and as seen by the user the program executes its own
  instructions and nothing else; every line is answered, get shows what set put
  there, and a listing is the program's.

### hw3: `libmini`, a C library

* **State**: `errno`; the kernel's mask, pending signals, actions and alarm; the
  caller's `jmp_buf` and `sigset_t`.
* **Operations**: `setjmp` and `longjmp` in assembly; the signal functions; about
  thirty system call wrappers; `perror`; `sleep`.
* **Hard**: a signal between any two instructions of `setjmp` and `longjmp`;
  nested handlers, which return through the restorer that `sigaction` sets;
  memory that was never initialised; one `errno`, written twice by each wrapper,
  for the program and its handlers, and by the writes of `perror` itself.
* **Correct when**: a jump lands in the state `setjmp` returned in, each handler
  can return, the mask unwinds, `errno` is that of one's own last call and
  `perror` names the failure it was called for.

### hw2: `logger`, LD_PRELOAD logging

* **State**: the descriptor in `OUT_FD`, part of the program's own table.
* **Operations**: the launcher; fourteen replaced functions, each of which
  resolves a path, calls the original and prints a line, in an order of its own.
* **Hard**: threads between these steps; descriptors used again; names that are
  gone by the time they are resolved; the program closing `OUT_FD`.
* **Correct when**: each call leaves one line, in the output, naming its file.

### hw1: a listing of open files

* **State** (`class process`): `alive`, `command`, `file_list`, and `hash`, the
  names already listed.
* **Operations**: the constructor, a fixed sequence of system calls on
  `/proc/[pid]`, for each process in turn.
* **Hard**: the process goes on while it is listed: it exits, becomes a zombie,
  executes another program, opens and closes descriptors. `hw1` leaves
  descriptors of its own open and has a limit on them.
* **Correct when**: a process is listed completely or not at all, one that lives
  and can be read is listed, no mapping is listed twice, and a row shows what its
  link led to while it was read.

## Modules

| module | models | note |
|---|---|---|
| `BreakpointTable` | `class breakpoint_table` | pure operators on a sequence |
| `Tracee` | the process, CPU and ptrace | external: from how `command.hpp` uses it |
| `Debugger` | `class debugger` and `main` of hw4 | extends the two above |
| `Debuggee` | what the user is promised | abstract specification |
| `Prompt` | the loop of `main`, `dbgcmd_parser`, `elf64_parser`, get, set, disasm, `translate` | one step per turn of a loop |
| `Errno` | the wrappers of `libmini.c`, `open` in `libmini64.asm`, `perror` | one step per access to `errno` |
| `Setjmp` | `setjmp`, `longjmp` in `libmini64.asm` | one step per instruction |
| `Signals` | the signal functions of `libmini.c` | one action per function |
| `Logger` | `hw2.cpp`, `inject_glibc.cpp`, `utils.hpp` of hw2 | steps of a call per thread |
| `Lsof` | `main`, `class process` and `class file` of hw1 | one step per system call |
| `MC*` | small instances for TLC | `MCWellPlaced` adds an assumption |
| `DebuggerProofs`, `TransparencyProofs` | theorems about the debugger, the first beginning with lemmas on its table | the second extends the first |
| `PromptProofs`, `ErrnoProofs`, `SetjmpProofs`, `SignalsProofs`, `LsofProofs`, `LoggerProofs` | theorems about the module of that name | |

### Debugger

The variables of `Debugger` carry the names of the members of the class. A
handler that lets the process run is split at its `waitpid`: the command does
everything up to the ptrace request, `pc` says which `waitpid` the debugger is
blocked in, and one action per kind of return does the rest (`ChildExited`,
`AssertFails`, `StepOverDone`, `StepDone`, `ContDone`). `over` holds the two
locals of `check_then_restore_si_reput` that live across its wait. `Resume` is
`cont` between its single step and its PTRACE_CONT, where a SIGKILL can fall.
Elsewhere a kill falls before or after a handler's requests, not between them.
`forked` is the `waitpid` of a start whose exec failed: what reads the input then
is the child, a second debugger that is LOADED, has no process and refuses every
command until it exits, upon which the assert of the first one fails.

A program is a set of addresses with, for each, the original byte, the size of
the instruction that starts there and its possible successors. An address with
0xcc executes int3; an instruction with another foreign byte in it does anything
(`ExecuteClobbered`). A word is a function from its addresses to bytes, so words
of neighbouring break points overlap as they do in memory. Addresses outside the
program fault.

Commands refused by their guard (wrong state, bad argument, a failed request on
a dead process) print and change nothing: they are stuttering steps.

`Debuggee` is the promise to the user: a program with a mode and an instruction
pointer that executes its own instructions while running, at most one of them on
a single step, and moves otherwise only when the user sets the pointer. The
refinement mapping (`Mode`, `Ip` in `Debugger`) hides the one moment at which the
real pointer differs: after an int3 and before `cont` moves `rip` back.

### Prompt

The front end is a model of its own: it keeps of the debugger only whether the
state is RUNNING, the `.text` range and the registers. A line is a sequence of
blanks and whole words; `dbgcmd_parser` is taken one turn of its loop at a time. A
long holds the numbers from -`Half` to `Half` - 1: `strtol` stops at these limits,
the result becomes unsigned, `get` prints it signed. `typed` is history: the
number of the last `set` of a register, also of a `set` of 0, which `reg_handler`
takes for a read. `NoText` is what the error returns of `elf64_parser` leave.
`disasm` starts with any assignment of instruction lengths to the addresses of
`.text` (what capstone makes of the bytes), 0 for bytes that are no instruction,
and goes on by what `translate` returns, -1 on failure. Commands that `Debugger`
models do nothing here.

### Errno

The frames are the main program and the handlers nested in it. A wrapper is three
steps (the system call, `errno = 0`, the store of a failure), `open` is two,
`perror` is a copy, up to two writes, the test, the message and the newline; a
handler may start between any two of them. The test is of `errno`, the index is
the copy: an index that `errmsg` does not have reads whatever lies behind the
table (`Outside`), which is printed or crashes the program (`Crashed`). When a
handler returns it may have put `errno` back or not. `last`, `wanted` and `clean`
are history: how the frame's last call ended, the failure `perror` was called for,
and whether a handler has spoilt `errno` since; `prefixed` says whether `perror`
was given a prefix. A frame's copies are reset when it has no more use for them.

### Lsof

`stage` is the next system call of the constructor; between two of them the
process may exit, become a zombie, execute another program (a set-user-id one
perhaps, which makes its links unreadable), close descriptors and open others
under the same number, and files may be removed. A descriptor is an open file with
what it is open for, `Opening`; the mode of a row is that of the link at `lstat`,
and a link with neither bit (O_PATH) leaves the number out of the row. A process
without a program is a thread of the kernel, which has no exe. `NextProcess` goes
on to the next entry of /proc; `held` counts what hw1 has left open (the directory
of each process it could read, and a comm whose read failed), and when it is at
`Limit` every open fails. `Lookup` says what readlink and stat find, `LinkExists`
what lstat does, which does not follow the link: cwd, root and exe of a zombie, or
of a process that may not be read, are there. `led` is history: what the link has
led to since its readlink. A file stands for its path, so removing the "
(deleted)" that the kernel appends is the identity on paths; in a maps line the
mark is a word of its own that the code never reads. The loops over maps lines and
over rows are one step each: `NewLines` and `Shown` say which indices pass the
tests of the loop, and `Ascending` puts them in order.

### Setjmp

The stack is a sequence of words; words beyond the stack pointer keep their value,
and a signal frame goes past the red zone. Signals arrive between any two
instructions. `esi` and `eax` are the registers of the value; `given` is history,
what each unfinished `longjmp` was called with, the one of the handler apart from
the one it interrupted. The program follows the rule of every user of these
functions: it jumps only while the frame of `setjmp` exists, and, with `Guarded`,
only once the buffer is whole (a flag cleared before `setjmp` and set after it, as
a handler that jumps needs). Without `Guarded` TLC finds the half-filled buffer at
once.

### Signals

One action per library function, called from the main code or from a handler,
while signals arrive and an alarm may be set. `memset` starts at any index in
`Leftover`, the values its uninitialised `i` may have. `size_t` is signed in
`libmini.h`, so they may be negative: memset then writes before its set, over the
frames of the handlers that run (`Overwritten`), over the `sa_handler` that lies
before the `sa_mask` of `signal`, or over its own return address
(`MemsetCrashes`). `sigaction` with a null act passes on a structure of which every
field may hold anything (`SigactionQuery`). `MaxUndefined` bounds the number of
these calls, `overruns` and `queries` count them. A blocking call ends when a
handler returns. `sigismember` reads a set and changes nothing; handlers left by
`longjmp` are in `Setjmp`, not here.

### Logger

A call goes through steps which other threads come between: resolve, original,
resolve, print. `ResolveFirst` and `ResolveLast` say which functions resolve when.
To resolve a name is one `realpath`; a descriptor takes three system calls, each a
step: `Readlink`, `Stat` of what the link leads to by then, and `RealpathOfLink`
of the name that was read. `NoOrigin` is `get_origin_func` without a result, upon
which the program calls a null pointer. `alone` records whether another thread has
moved what the call is about within a lookup or between the original and a lookup:
its name, its descriptor, or the name of the file behind it (`Moves`). Files,
names and descriptors are the kernel's (external), with the lowest free descriptor
and the first unused file chosen each time. Creating the output and `dup` of
stderr are alike here: a descriptor for the output.

## Runs

Bounds: the debugger's program has 8 bytes, 5 instructions (one outside `.text`,
one of them an int3 of its own, a loop, an exit that may fail) and words of 3
bytes, so that a word spans two break points; tables of 2 or 3 break points.
Prompt has numbers of 4 bits, 0 and one beyond the range of long among them, lines
of up to 6 blanks and words (a command, its two arguments, and blanks too many), a
`.text` of 4 addresses with words of 4 bytes, three turns of disasm, and a program
without `.text`. Errno has a failure inside the table, the last one of it and the
first one outside, and a handler that interrupts main at any step; deeper nesting
is left to the proofs. Lsof has two programs, a library mapped twice, a descriptor
that is a log open for writing or another file opened with O_PATH, so that a row
can mix the two, and three processes in turn and a limit of two descriptors, so
that the third process meets the limit when the first two were readable, and does
not when one was not. Setjmp has a stack of 4 words: a frame, `setjmp`'s return
address, and a signal frame with its red zone, and jumps with 0 and 1. Signals has
two signals in different bytes of the set, handlers nested twice, a `memset` that
starts before, at the start of or within the set, and one call of undefined
behaviour. Logger has two threads, two names, three descriptors (one is the
output) and three calls: enough for one thread to close and open again what the
other is about. All bounds are CONSTANTS.

Passing runs:

| run | shows |
|---|---|
| `sdb_transparent` | the debugger implements `Debuggee`; state, saved bytes, disassembly and reported hits are right, for a user who keeps to instruction starts and does not break twice at one address |
| `sdb_anywhere` | with break points and jumps anywhere: memory matches the table, no break point is passed |
| `sdb_progress` | a single step of an instruction that does not block returns; repeated cont ends a program without loops |
| `prompt` | words are found, every line is answered, get shows the number of the last set unless it was 0, disasm lists successive instructions |
| `lsof_scan` | cwd, rtd, txt complete; mappings once; a row shows only what its link led to between readlink and lstat; no live and readable process dropped while descriptors last, at most one of them left open per process; the listing ends |
| `errno` | errno is that of one's own last call; perror without a prefix names it, and how one with a prefix may fail to |
| `setjmp_lands` | a jump restores registers, stack pointer and call site, with the value given in eax |
| `signals_mask` | each handler can return and the mask unwinds to the main code's, as long as memset stays within its set (and, for the first, sigaction gets an act) |
| `logger_lines` | two threads: one line per call until the program closes the output, naming the right file unless the other thread has moved it during a lookup or in between |

Runs that refute a statement of the repository (comment, assertion, usage text
or `spec.pdf`):

| run | statement refuted | by |
|---|---|---|
| `sdb_rebreak` | saved code is the original | breaking twice at one address |
| `lsof_deleted` | removed mappings are DEL | the word that is searched |
| `setjmp_mask` | longjmp restores the mask | it does not |

Other places where the code departs from what it is meant to do are part of the
models, and the properties are stated around them; `PROJECT.json` lists each
under its line:

* the assert in `wait_then_check_exit` fails for a process that is killed, and a
  process killed at the prompt stays RUNNING (`AssertFails`, `StateMatchesChild`);
* a start whose exec fails leaves a second debugger reading the input, and an
  assert of the first fails when it ends (`StartFails`, `ForkedExits`);
* a signal that stops the process one byte past a break point is reported as a
  hit, and `rip` is moved back (the `WellPlaced` assumption of `HitMeansTrap`;
  putting such an address into `SignalAddrs` of `sdb_transparent` makes TLC show
  it), although the comment at `command.hpp:245` knows of no such stop;
* set of the value 0 does nothing, although help says "set reg val: get a single
  value to a register" (`GetAnswersSet` is about other numbers: after `set rax 2`
  and `set rax 0`, get shows 2); get of a register that holds -1 prints nothing, and
  numbers beyond long are cut off (`GetAnswersSet` says so);
* a system call that blocks keeps a single step in `waitpid` (`StepReturns` is about
  instructions that finish);
* the disassembler gets seven bytes, and a failure moves disasm back by one
  (`CodeBytes`, `translate`; `ListingIsProgram` is about shorter instructions);
* `perror` with a prefix tests the errno of its own write and indexes its table with
  the old one: it reads outside the table for a failure above 34, and says Unknown
  of any other when that write failed with a number outside the table (`Message`;
  `PerrorNames` says when);
* a descriptor closed and opened again between readlink, stat and lstat, or an exec
  between those of exe, gives a row of two files (`RowShowsTarget` says that both
  were at the link); a descriptor opened with O_PATH is listed without its number
  (`StatRow`);
* the directories of descriptors are never closed, nor is a comm that cannot be
  read, and once none is left the remaining processes are not listed (`Full`,
  `OneHeldPerProcess`); a live process that becomes unreadable under the scan is
  dropped (`ReadableIsListed`);
* another thread may make a line name another file (`LineNamesFile` holds for
  calls it does not come between);
* a break point inside an instruction shows as cc in its disassembly (the
  `WellPlaced` assumption of `DisasmHidesTraps`);
* `longjmp(env, 0)` returns 0 (`LandsWhereSet` says that the value given comes
  back);
* `memset` starts at an index that was never set and is signed, so `sigemptyset` may
  leave signals in the set, and may overwrite what lies before it (`memset`,
  `Overwritten`, `MemsetCrashes`; the properties are about programs to which the
  second has not happened);
* `sigaction` with a null act installs an uninitialised action
  (`SigactionQuery`; `HandlersReturn` is about programs that do not call it so);
* the program may close OUT_FD, and lines are lost or end up in its own files
  (`stray`; `LinesInOutput` holds until then);
* a path that `realpath` cannot resolve is printed as (null) (`Realpath`;
  `LineNamesFile` is about successful calls on files with a name).

### Fairness

`FairSpec` of `Debugger`: weak fairness of the process's steps (the kernel
schedules it) and of the return from `waitpid` (the debugger is scheduled). The
user owes no command. A single step needs no more, as long as its instruction
finishes: fairness of the process's steps leaves out a system call that blocks.
`StepReturns` is checked without signals and kills. `SessionEnds` is about a user
who keeps typing `cont`, and `PersistentSpec` says exactly that, with weak
fairness of `cont`; deleting and setting break points in between is allowed. It
is checked without signals, jumps and loops, which can keep any program from
ending.

`FairSpec` of `Lsof`: weak fairness of the scan; nothing about the process.

`Spec` of `Prompt`: weak fairness of the parser and of the commands, which is
again that the debugger is scheduled; the user need not type anything.

`Setjmp`, `Signals`, `Errno` and `Logger` have safety properties only.

## Proofs

For every program, session, word size and table size:

* `DebuggerProofs`: `TypeCorrect` and `StateCorrect` for every user;
  `MemoryCorrect` and `SavedCorrect` for a user who does not break twice at one
  address (`~Rebreak`; `sdb_rebreak` shows that the assumption is needed).
* `TransparencyProofs`: `NoMissed` under `~Rebreak`; `HitCorrect`,
  `DisasmCorrect` and `Transparency` (the refinement of `Debuggee`) under
  `~Rebreak` and `WellPlaced`: break points and jumps at instruction starts, no
  signal one byte past a break point. `MCWellPlaced` asserts both about the instance of
  `sdb_transparent`, so some session satisfies them.
* `PromptProofs`, for any words and registers, lines of any length, any width of
  long and any sections: `TypeCorrect`, `WordsFound`, `GetShowsSet`,
  `ListingCorrect`, and `LineBounded`, a bound on the steps a line takes.
* `ErrnoProofs`, for every set of failures and every depth of handlers:
  `ErrnoTypeCorrect`, `ErrnoCorrect`, `PerrorCorrect`.
* `SetjmpProofs`, for every stack, set of call sites and set of jump values:
  `TypeCorrect`, and `JumpLandsWhereSet` for a program that jumps only with a whole
  buffer (`Guarded`, which `setjmp_lands` satisfies; without it TLC finds a jump
  through a half-filled buffer).
* `SignalsProofs`, for every set of signals, every leftover index of `memset`, a
  negative one too, and every nesting: `TypeCorrect`, `EveryHandlerReturns`,
  `MainKeepsItsMask`. The last two are about programs in which no memset has written
  before its set, the second also about ones without a null act.
* `LsofProofs`, for any files, maps, descriptors and number of processes:
  `TypeCorrect`, `SpecialFilesListed`, `MappedFilesOnce`, `RowsShowTargets`,
  `OneDescriptorHeld` and `ReadableProcessListed`, with descriptor numbers used again
  at any time; `ScanBounded` for finitely many descriptors.
* `LoggerProofs`, for any threads, names, descriptors and number of calls:
  `TypeCorrect`, `LinesReachOutput`, `LinesNameFiles`. That the set of names is
  finite is assumed, so that files can be numbered.

Memory matches the table only together with more: `IInv` adds that no address is
listed twice (or deleting one entry would take out the int3 of the other), that
all listed addresses are at or above `text_begin` (or starting again would not
re-arm them), that saved bytes are original (or a restored byte would be wrong)
and that the word kept across a single step is what memory must hold again (or
writing it back could undo a neighbour). The lemmas on `break` and `delete` go
through lemmas at the head of the module: what adding and removing an entry does
to lookup by address, for a table that is a sequence searched from the front.

`PlaceInv` adds to it, under `WellPlaced`, that the user sees the program at one
of its instructions, that a single step starts on the original byte, that a
signal stop is never one past a break point, and that a saved word shows its
instruction. The refinement then needs one case per action.

In `Prompt` the loop of `dbgcmd_parser` is the hard part. `ParseInv` says that
every word before `pos1` has been found, at the place in `cmds` that counting the
words up to it gives, and that `pos1` is where a word may begin; `LineInv`, that
two words never touch, makes what lies between `pos1` and the next blank one word.
`RegInv` says that a register whose last set was not of 0 holds the typed number,
cut off at the limits of long, modulo the width, and
`OutInv` that an answer speaks of the register as it is, which needs that no
command runs before the next line clears the answer; the rest of `GetShowsSet` is
that going to unsigned and back is the identity on long. `WalkInv` says, for a
`.text` whose instructions all decode, that `tar_addr` is the address after the
last one listed, modulo the width. Since `.text` ends within the width, leaving it
means having passed its end. `Half` is any number above 1, not only a power of two,
which no argument uses.

The invariant of `Errno` has to speak of all frames at once, since a handler that
returns makes the frame below it the current one. `ViewInv` says what `errno` is
to each frame (`View`: cleared while its wrapper is between the two stores, the
outcome of its last call otherwise): for the current frame it is `errno` itself,
for an interrupted one it is what the next handler found when it started
(`saved`), each as long as that frame is `clean`. A handler that puts `errno` back
thus restores exactly the view of the frame below. `CopyInv` adds that the copy
`perror` keeps is the failure it was called for, and `PlainInv` that without a
prefix no write comes between that copy and the test, so that `errno` is still
that failure.

The invariant of `Setjmp` is about `Main`, the code outside of the handler: what
runs, or what the kernel saved of it, so that neither the arrival of a signal nor
the return from its handler changes it. `Saved` and `Loaded` say which registers
an unfinished `setjmp` has stored and an unfinished `longjmp` has loaded, the latter
for the handler's `longjmp` and for the one it interrupted, each with the value it
was given;
`BufferInv` says that outside of `setjmp` the buffer is what the program saw when
`setjmp` returned. `ShapeInv` and `HandlerInv` keep the stack pointer inside the
stack, and the handler above the word it returns through; they hold without
`Guarded`, and so does `TypeCorrect`.

In `Signals` it is enough to speak of the bottom of the stack of frames for the
mask (`OuterMaskInv`: the outermost frame holds the mask of the main code), but of
all frames and all actions for the restorer (`RestorerInv`): a handler installed
now is delivered later, and its frame may be the last to go. Both end with the first
`overruns`: what memset does to a frame is not undone.

In `Lsof`, `OrderInv` says that the rows begin with cwd, rtd and txt as far as the
scan has come; `HashInv` that every name listed is remembered, without which the
next maps line could repeat one; `HeldInv` counts the descriptors of the processes
before this one apart from its own; `LedInv` that between readlink and lstat the
name and the inode are among what the link has led to, and that it leads to one of
these or nowhere, so that the mode of lstat is too. `LinkInv` ties the link being
read to the system call that is next.

In `Logger`, `CountInv` bounds the numbers of the files in use by the calls whose
original has returned, so that a call that makes a file finds a new one. `OutInv`
says that no name leads to the output: otherwise opening that name would give a
second descriptor of it, and OUT_FD could lead there again after it was closed.
`CallInv` says what each call knows at each step: the path it resolved first is
the one it would resolve now, or the file it resolves next is the one its original
was about, and between the steps of a lookup the name that was read is still that
of the descriptor, each as long as no other thread has moved it (`alone`). A step
of one thread thus has to be compared with the knowledge of every other
(`OtherCall`).

Only model-checked: liveness (`StepReturns`, `SessionEnds`, `ScanEnds`,
`LineAnswered`), which the prover does not do. For the last two the part that is a
matter of safety is proved: `Work` counts the steps a line, or the scan of one
process, may still take, and every step of the program lowers it (`LineBounded`,
`ScanBounded`; `pos1` moves at every blank, a turn of disasm counts although it may
go back, readdir returns no entry twice, and a process cannot add to the list being
read). What is left to TLC there is that some step is always possible and, by
fairness, taken. Every other property of the passing runs is a theorem; those of the
runs that refute a statement are false and have none.

## Not modelled

* capstone, the bytes of ELF files and the contents of /proc/[pid]/maps as text:
  what they yield appears as constants or choices. `maps_parser` and `getopt` only
  fill what vmmap prints and two file names.
* getregs, dump, vmmap, list and help, which print; flags, whose bits the kernel
  masks.
* In the copy of the debugger that a failed start leaves: a second start, and a
  signal that stops it (its parent still traces it and would take it for the
  program).
* A process that itself executes another program under the debugger.
* The user table of hw1 and its owner column; the options of hw1, which appear as
  the sets of what they let through.
* `start.asm` of libmini (straight-line), its string functions, `sigismember` and
  `exit`; in `Signals`, handlers left by `longjmp`.
* Buffers, flags and return values in the lines of hw2; the sample programs.

## Plan

1. Extend the models, where it still pays: a process that executes another
   program under the debugger, which wipes its int3s; the signal stops of a copy
   left by a failed start; the argument checks of hw1 as pure operators against a
   reference definition.
2. `StepReturns` and `SessionEnds` have no measure yet: the second needs one on
   the program, whose successors must then be without loops.
