# A TLA+ verification of gcrasm2

gcrasm2 is a plugin for the x64dbg debugger.  From a selection in the CPU window
it disassembles a function and, recursively, the functions it calls, into
assembly that can be compiled again (menu entries "disassemble n"), or lists the
tree of calls below the selection (menu entries "callstack n").  With it come the
author's library BlackStorm (`src/libs/BlackStorm`) and the logger plog
(`src/libs/plog`) that BlackStorm sets up.  This directory holds TLA+ models of
these programs, the TLC runs that check them on small instances, and proofs,
checked by TLAPS, of theorems that hold for every instance.

* [Inventory](#inventory): the program's parts, their state and operations
* [Modules](#modules): which module models which part
* [Runs](#runs): what is model-checked, with which bounds
* [Disagreements](#disagreements): where code and text differ
* [Proofs](#proofs): what is proved, and how
* [Limits](#limits): assumptions, and what is not modelled
* [Plan](#plan): what comes next

Line numbers refer to `src/gcrasm2/grcasm.cpp` unless a file is named; files
without a directory are in `src/libs/BlackStorm`.

## Inventory

### The plugin

**Recursive disassembler** (`fGetRunableASMCodeToFile`, 152-887).
State: the C++ call stack, with each activation's range, depth, open file and
collected jumps; the lists `gvDisassembleFilePaths` (functions begun),
`gvDisassembleFunctionDeclaration` and `gvdwCallAddress` (callees that get a
variable `gdw_...`); the files.  One activation sweeps its function twice: the
first pass collects the jumps and the entries of switch tables (252-310), the
second writes a line per instruction with the labels that stand there (314-878).
A CALL that can be followed (328-427) asks the debugger to analyse the callee, at
most ten times (460-476), cuts its range at the first `int3`
(`_AnalysisFunction`, 132-150), and recurses (501).  The result, 0 written, 1
already listed, 2 too deep or ignored, 3 no file, decides how the CALL is
written (502-585).
*Hard:* the recursion re-enters functions whose file is open; the lists are
changed by all activations; the depth test comes before the list test; the
debugger answers late or never; the debuggee may rewrite its code, or end, between
any two reads.
*Correct when:* no function is extracted twice; a file has one writer; each
name a CALL uses can be bound; jumps land on their labels; the walk ends unless the
debuggee does.

**Call-stack lister** (`StartGetCallStackToFile`, `fGetCallStackToFile`,
889-1170).  State: the C++ call stack, the list `gvdwCallStack` of callees met,
and one output file.  The callee is marked before it is walked (1059), its line
written after the recursion came back (1161).
*Hard:* between mark and line lies a whole subtree, three ways to fail, and a
queue that another thread works off.
*Correct when:* every callee met has exactly one line; the lines are a
post-order from which the tree can be rebuilt; a line is "too deep" exactly at the
maximum depth; nothing is skipped that nobody lists.

**Menu commands** (`plugin.cpp`: `CBMENUENTRY`, `DisassembleCpuWndSelection`,
`DisassembleCpuWndSelectionMakeCallStackToFile`, `Init...Directory`).  State: the
maximum depth, the directory's name, the tick, the selected segment.  A
disassemble entry clears the lists, runs the disassembler, and always goes on to
the merge, also when the command was turned down.
*Hard:* every step may fail, and what it leaves (lists of one command, directory
of another, segment of a third) is what the next merge reads.
*Correct when:* an accepted command merges its own extraction, and every command
comes back to the menu.

**Merge** (`MakeDisassembleFilesIntoSingle`, 1267-1336; `ReadFileA` of
`FileOper_2019_8_6.cpp`).  State: the merged header and source.
*Correct when:* a source comes with its header, and both together bind every
name.

**Array export and Adler32** (`fGetArrayHEXToFile`, 1172-1264;
`plugin.cpp:141-165`).  A range of memory as an array in a file, and a checksum of
it.  Neither can be reached from the menu at this commit.
*Hard:* a range that is no whole number of elements, memory that cannot be read, an
earlier file that cannot be deleted.
*Correct when:* every byte is exported once and a line ends where it is full (at
sixteen bytes, the first one element later); the sum is Adler32.

**Debugger and debuggee** (x64dbg, not under `src/`; its interface is
`pluginsdk`).  Seen through `DbgDisasmAt`, `Script::Memory::ReadDword`,
`DbgGetLabelAt`, `DbgCmdExec("analr ...")`, `Script::Function::GetInfo`.

### BlackStorm and plog

**Module loader** (`MemoryModule.c`).  `MemoryLoadLibraryEx` takes address space,
heap and references to libraries, binds and relocates an image, sets its page
rights and attaches it; `MemoryFreeLibrary` gives all that back.  Look-ups search
the export directory and the resource tree.  State: the `MEMORYMODULE` of each
module, and what the process holds for it; the sorted name table, built by the
first search.
*Hard:* each of eight steps may fail with a different part taken; modules share
libraries; sections share pages; a table that is built on demand may not be.
*Correct when:* everything taken is given back once, in order; needed pages are
there with their rights; a search answers what the directory says.

**Execution from memory** (`MemoryOper.cpp`, `fMemExecute`).  Computes the size of
an image, copies the sections, relocates, binds imports and enters it.
*Correct when:* the copies stay in the memory allocated and off each other.

**Registry wrapper** (`WinReg.hpp`).  `RegKey` owns a handle and hands it from
object to object; getters of variable length ask for the size first and for the
data afterwards; an enumeration asks for a count first.
*Hard:* a handle's value is reused by the system once it is closed; another
process changes values and names between any two calls.
*Correct when:* each open handle has one owner, whatever the memory held in which an
object was made; what is got is what the value was at some moment of the call.

**Rolling log** (`plog/Appenders/RollingFileAppender.h`, `plog/Logger.h`,
`plog/Util.h`, set up by `fplogInit` of `TraceLog.cpp`).  Threads append records
under a lock; when the file is full the backups are renamed one by one.
*Hard:* several processes on one file; files that others have open; a process that
is ended between two renames.
*Correct when:* the backups and the log, read in order, are what was written less
some of the oldest.

**Trace and file helpers** (`TraceLog.cpp`, `FileOper.cpp`,
`FileOper_2019_8_6.cpp`): append to, replace and read a file that others use.
*Hard:* what each lets others do while it has the file open; a full disk; characters of
two bytes handed to a function that counts bytes (`fTraceLogStringToFile`).
*Correct when:* a text that is traced alone stays, what is replaced is replaced whole,
and a reader gets the file or an error.

**Ping** (`ParseUrl.cpp`, `ping.cpp`).  `pingurl` sends echo requests to each
address of a host, four tries each, over a raw socket that sees every ICMP packet
of the machine.  State: the sequence number, shared by the whole process, and the
time of sending.
*Hard:* late replies, the program's own requests, packets of other programs,
a sequence number of 16 bits, a clock that is set.
*Correct when:* a success is the reply to the last request, and the call returns.

**Strings** (`IString.cpp`): three splitters, the URL coders.
*Hard:* quotes, escapes, patterns that overlap themselves, the empty pattern, a buffer
that is full.
*Correct when:* the pieces are those of the text, and what was encoded comes back.

**Process and machine helpers** (`ProcessOper.cpp`, `MachineOper.cpp`): questions
to a system that changes while they ask, with an array of ten places for its
answers.
*Correct when:* an answer was so during the call.

Interactions: the menu calls the two walkers and the merge on the GUI thread,
one command at a time; the walkers share the debugger with its own threads and
with the debuggee; the menu, the disassembler and the merge share the three lists,
the directory, the tick and the segment.  There are no locks.  The helpers of
BlackStorm do not call each other, except that the loaders use their own look-ups;
they meet in what the system keeps: files, handles, references, address space.
The plugin calls `ReadFileA` and the path and time helpers; the rest is offered to
other programs.

## Modules

    DebuggerImage --- Debugger --- Disasm --- Session --- SessionProofs
          |               |          '------- DisasmRefinement (INSTANCE Extraction)
          |               |                         '--- DisasmProofs
          |               '------ CallStack --- CallStackProofs
          '--- Extraction
    Ping --- PingProofs

    Loader     = MemoryModule, SectionPages, ExportTable, ResourceTree, MemExecute
                 (--- MemoryModuleProofs, MCLoader)
    Registry   = RegKeys, RegValues, RegEnumeration (--- RegistryProofs, MCRegistry)
    Helpers    = RollingFile (INSTANCE RollingLog), TraceFile, SystemQueries,
                 StringSplits, UrlCoding, Checksums, ArrayExport
                 (--- HelpersProofs, CodingProofs, MCHelpers)

| module | models |
|---|---|
| `DebuggerImage` | what one read of the debuggee returns (external), and the pure decisions the code takes on it: where a CALL leads (328-409), through which thunk (429-433), what a callee is named (435-450, 573-584) |
| `Debugger` | the analysis queue, the functions registered, a debuggee that rewrites its code or ends (external) |
| `Disasm` | the recursive disassembler |
| `Extraction` | what an extraction promises, without sweeps, files and debugger |
| `DisasmRefinement` | the refinement mapping from `Disasm` to `Extraction` |
| `CallStack` | the call-stack lister |
| `Session` | menu commands, directories, and the merge, around the steps of `Disasm` |
| `ArrayExport`, `Checksums` | the array export; Adler32 and the checksum of a ping |
| `Ping` | `pingurl`, `pingIp` and `PingCore` with a network that loses, duplicates and delays |
| `MemoryModule` | the life of modules loaded from memory: each step of a load, its failure, entry, free |
| `SectionPages` | `FinalizeSections`: rights and pages of sections that share pages |
| `ExportTable` | `MemoryGetProcAddress` with its sorted table, a step for each comparison of the search |
| `ResourceTree` | `MemoryFindResourceEx` with its search by halving, `MemoryLoadStringEx` |
| `MemExecute` | `fMemExecute` |
| `RegKeys` | who owns which registry handle |
| `RegValues` | getters and setters of one value that another process writes too |
| `RegEnumeration` | `EnumSubKeys` and `EnumValues` while names come and go |
| `RollingFile` | threads, lock and appender of the rolling log, with several processes, viewers and ends of processes |
| `RollingLog` | what a rolling log promises, whatever files it is kept in |
| `TraceFile` | `fTraceLogAppend` and its siblings for bytes and strings, `MyWriteFile` and `ReadFileA` on one file |
| `SystemQueries` | `fGetAllMACAndIP`, `fGetAllMACAndIPArray`, `fGetModuleNameVectorEx`, `fGetProcessIdByName` |
| `Loader`, `Registry`, `Helpers` | several of these side by side, for runs and proofs |
| `StringSplits`, `UrlCoding` | the splitters and the URL coders of `IString.cpp` |
| `DebuggerPrograms` | the debuggees of the runs |
| `MC...` | the instances TLC checks, with one `.cfg` per run |
| `...Proofs` | the proofs (below) |

**State.**  A C++ activation is a record (`Frame`): `cur` is the running one,
`stack` the suspended ones, `ret` the result handed back.  The control state `pc`
is the place in the code at which the program meets the debugger or another
activation: `enter` (155-235), `scan` and `table` (252-310), `emit` (317-887),
`post` and `query` (461-476), `trim` (132-150), `returned` (502).  The lists keep
their C++ names and their order.  `files` is parallel to
`gvDisassembleFilePaths`: whether the file could be created, whether it is closed,
and its lines.  In the modules of BlackStorm the variables likewise carry the
names of the members and locals they stand for, and `pc` is a place between two
calls of the system.

**Steps.**  One action is the stretch of code between two reads that can see
different things, or between two calls of the system that can fail or be seen by
others.  A sweep handles one instruction per step, because the debuggee
runs on in between; the poll for a function's range is a step per try; a
recursion pushes, a return pops.  A failure is an action of its own with exactly
the state the code leaves behind: `EnterCreateFails` leaves the path listed and the
file missing (216-217), `ImportFails` leaves the libraries bound so far.

**Data.**  An instruction is a record of what the code tests: a class of its
mnemonic, its size, its operand's kind and values.  A name in the output is its
form (`SUB`, `gdw`, a debugger label, a jump label, a switch case) and its
numbers; a line is the address, the labels placed there, the kind of text, and the
names it refers to.  An image to be loaded is what its headers make the loader do.
Wording and layout are left out.

**Composed instances.**  The parts of `MCLoader`, `MCRegistry` and `MCHelpers` share
no state in the program, so a behaviour of these instances is one of one part: the
variable `part` names it, and the others stay at their first state.  This puts the
parts under one run each instead of one run per part; it does not claim
anything of their interleaving, of which there is none.

**Mutants.**  Some modules hold operators named `...Mutant` ahead of an original:
the original with a plausible slip (a dropped test, a missing reset).  They are
no part of any specification.  Each property of the runs was seen to fail with one of
them in the original's place (`PROJECT.json`, "mutants").

## Runs

Each run is `tlc -config <cfg> <module>`; each ends within two minutes.

| run | configuration | question | shows |
|---|---|---|---|
| `disasm` | `MCDisasm.cfg` | is what is written complete and closed, on a debuggee that stands still? | `ReturnCodeHonest`, `CallsDeclared`, `JumpsLand`, `SweepComplete`, `EndsUnlessGone` |
| `disasm_adverse` | `MCDisasmAdverse.cfg` | do lists and files stay consistent, and keep the promises of `Extraction`, when files fail, answers are late, code changes, the debuggee ends? | `DistinctFunctions`, `OneWriterPerFile`, `CallsAnchored`, `GdwDefinedOnce`, `ClosedInOrder`, `ImplementsExtraction`, `EndsUnlessGone` |
| `callstack` | `MCCallStack.cfg` | can the tree be read off the listing, is it whole, one line per callee whatever fails? | `CalleesAccounted`, `PostOrder`, `WalkedIsClosed`, `EndsUnlessGone` |
| `session` | `MCSession.cfg` | does the merged pair link, after any commands, when the file system works? | `MergedLinks`, `CommandsEnd` |
| `session_faulty` | `MCSessionFaulty.cfg` | what is left of that when directories, files and reads fail? | `SourceFitsHeader`, `AcceptedMergeIsOwn` |
| `ping` | `MCPing.cfg` | is a success the reply to this request, and does the call return? | `SuccessIsOwn`, `Terminates` |
| `loader` | `MCLoader.cfg` | do loads give back what they take, whichever step fails; are pages, look-ups and layouts right? | `LifeInOrder`, `PagesRight`, `AnswersRight`, `FoundRight`, `PlacedRight`, `LoadersEnd` |
| `registry` | `MCRegistry.cfg` | has each handle one owner; what does a getter return when another process writes? | `KeysOwned`, `ValuesRight`, `EnumerationRight` |
| `helpers` | `MCHelpers.cfg` | what do files, answers and texts look like under sharing, failures and changes? | `LogFilesRight`, `OnlyOldestLost`, `TextsWhole`, `AnswersOfTheCall`, `SplitsRight`, `EncodingRight`, `SumsRight`, `ExportRight`, `HelpersEnd` |

Three more runs end in a counterexample (below).

What the properties with short names say:

* `ReturnCodeHonest`: when a caller resumes, what it is told agrees with the lists.  In
  `disasm` every file can be created, so that the code for "no file" does not occur
  there; the theorem `ReturnCodesHonest` covers it.
* `ClosedInOrder`: a file that is closed runs from its function's start upward to
  no further than its end.  It holds on any debuggee, also one that has ended.
* `EndsUnlessGone`: the walk ends, or the debuggee has ended.  A debugger without a
  debuggee reports an instruction of size 0, and the sweep then stays where it is
  (309, 878, 148): the models have that loop.  In `disasm` it is checked on the image
  with loops and a switch, whose table is read until an entry lies outside the function; in
  `disasm_adverse` on a small one that changes.
* `LifeInOrder`: the references to libraries do not exceed those of the host and of the
  modules there are; a module that is gone holds nothing; a library is detached
  exactly if it was attached, before its code goes; no entry point runs in an image
  that was not relocated.
* `PagesRight`: needed sections are usable as a whole, no page gets rights that none
  of the sections chained to it asks for, and only what may be discarded is given
  back.
* `AnswersRight`, `FoundRight`: a search gives what the directory or the tree says,
  whether its table was built by this search, before, or could not be; a missing
  language is replaced, and nothing is found where all languages have names; a key given
  as a text "#nnn" is its number, of which 16 bits are kept; a string begins behind those
  before it.
* `PlacedRight`: what `fMemExecute` copies stays in its memory, off the headers and
  off other sections, and each place is relocated once.
* `KeysOwned`: what is owned is open, once, and what is open is owned, unless a
  constructor has closed a key that it found in its memory (`OwnKeyClosed`, below).
* `ValuesRight`: what was set comes back, a list up to its first empty string; a string
  is of one moment; binary data is what it was, with zeros behind up to what it had
  been; a getter that throws for the value's sake (it is not there, is of another type,
  has grown) has a reason in the value.  The system may also refuse a call (`Refused`,
  `ContentsRefused`), of which the property says nothing.
* `EnumerationRight`: a removal before its turn is noticed; an addition repeats names
  and cuts as many off the end.
* `LogFilesRight`, `OnlyOldestLost`: at most one process writes, each file has one
  header, and the rolling log implements `RollingLog`: records come at one end and go
  from the other.
* `TextsWhole`: what `MyWriteFile` says it wrote and `ReadFileA` says it read is the
  file; a text traced while no other tracer was at work stays, whole if it was handed
  over in bytes.  Of a string `fTraceLogStringToFile` hands over the number of
  characters (`TraceLog.cpp:149, 172`, against 34), so that in a Unicode build the file
  gets the first half of it: the property says exactly that half.
* `AnswersOfTheCall`: what a helper answers was so during its call.  The adapters in the
  array are all of one moment, and what lies behind the array is written over only if
  the system had more adapters than its ten places (the loop has no bound,
  `MachineOper.cpp:161-177`).  Modules listed and modules that got no name are together
  as many as there were; one is listed twice only if their number grew meanwhile, when
  handles that were never written are asked for their names.
* `SplitsRight`: quoted words come back; `split` gives what is left of the
  text when the patterns are cut out, where a pattern that ends as it begins may take the
  end of the text with the copy of it that `split` adds; the third gives the trimmed pieces
  and the rest.
* `HelpersEnd`: a call of `MyWriteFile` ends unless the disk stays full, and a call of a
  splitter always, but for `split` with the empty pattern, whose loop stays where it is
  (`IString.cpp:709-719`).
* `ExportRight`: the elements are the bytes of the range, each once and in order; only
  the last may reach behind the buffer.  A line ends where it is full and nowhere
  else: the newline follows the element at a multiple of sixteen, so that the first
  line has one element more than the others (17, 18 or 20 bytes).  Where the earlier
  file could not be deleted (`DeleteFileA`, 1177, is not asked), it stays in front.

**Bounds, and why they are enough.**

* *Programs.*  `GameImage` has the cases the code distinguishes: shared callees,
  direct and mutual recursion, a labelled function, thunks into the game and out
  of it, system modules, a switch whose table ends at an address outside the
  function, jumps inside, outside, into the middle of an instruction, a call
  through memory that reads as filler, a callee the analyser does not know, an `int3`.
  `SmallImage` is the smallest with a labelled and an unlabelled callee that share
  a third which calls back; its patched form swaps a call and cuts a function short.
  `TinyImage` has two selections, one of which calls the other; it has calls only, so
  `CommandsEnd` says that commands end whatever fails between their steps, and that
  walks end over loops and tables is for `EndsUnlessGone` of `disasm`.  `GoneImage` is what
  is left of any of them.
* *`gdwMaxCallNumber`* is 1 or 2 for 5 to 30.  The code compares it in two places
  and counts by one; at 2 a callee can be refused below a caller that was not, be
  reached later by a shorter path, and be met while it is being written.
* *`MaxTries`* is 1 or 2 for 10: with 2 there is a first, a repeated and a last
  poll.
* *`MaxPatches`* is 1: the code changes, or ends, once, at any moment.
* *`MaxLines`* bounds a file that is written while the debuggee is gone: the sweep
  then writes the same line for ever.
* *`MaxTick`* is 2: commands in one tick and in different ones, which decide
  whether a directory's name is taken.  The number of commands is not bounded.
* *Ping*: two addresses, one of them this machine's; two tries; six sequence
  numbers, as few as four requests and two earlier ones allow
  (`PingConstants`), so that numbers run over in most behaviours; a time-out of two
  units; one change of the clock.
* *Loader*: two modules at a time, out of a DLL with two imports, an EXE with one of
  them, and a refused file.  One library is held by the host and one is not, which is
  the difference `ImportsStay` turns on.  Loads and frees are not bounded.  Pages of two units
  and up to three sections of zero to three units give every way two and three
  sections share a page; export directories have up to three names in any order;
  trees have up to four keys of both kinds a level, the depth at which halving
  goes both ways, and are asked for numbers given as texts too, one of them (65537) of
  more than 16 bits; files for `fMemExecute` have up to three sections.
* *Registry*: three objects and three handles, so that a handle can go from one to
  the next while a third holds another; the memory of a new object may hold no handle, a
  predefined one, or one that may be open (`Leftover`); values and names change up to twice, once
  between the two calls of a getter and once elsewhere.
* *Helpers*: three log files of one record each, two processes, one end of a process;
  two tracers, one of them of strings of two bytes a character, two writers and a
  reader; a disk that fills up twice; three adapters for two places; texts
  of up to four characters of five classes; patterns of none, one and two characters, one
  of which ends as it begins; codes on both sides of each class
  limit; buffers too small by every amount; bytes, words and bases scaled down so that
  sums run over (`Checksums` takes the widths as constants); ranges of up to seventy
  bytes, which make several lines, with and without an earlier export.

**Fairness.**  Both walks, and the steps inside a command, are weakly fair
(`WF_vars(Walk)`, `WF_svars(InCommand)`): they are straight-line code on the GUI
thread that waits for nothing but its own `Sleep`.  Nothing is assumed of the
analyser, of the debuggee, or of the user.  In `Ping` the program and the passage of
time are fair (`WF_vars(Program)`, `WF_vars(Tick)`), the network is not: every
wait has a time-out of 100 ms.  A load, a free, a search, a write and a splitting that were begun
run on (`Proceed`, `Search`, `Step`, `SplitsStep`); nobody has to begin one.  `HelpersEnd` assumes in
its statement that the disk does not stay full, which is what `MyWriteFile` waits for.

**Properties of a debuggee that stands still.**  `JumpsLand`, `SweepComplete` and
`WalkedIsClosed` relate the output to the code, and are checked with
`MaxPatches = 0` or state `patches = 0`.  On code that changes between the two passes
they are not true of the program: a jump may then refer to a label the second pass
never places.

**Deadlock** is not looked for in `disasm_adverse`, where `MaxLines` stops a sweep
that would go on for ever, nor in the composed instances, whose parts come to their
bounds.  Everywhere else a walk that is done stutters by an action of its own, and
TLC finds no other state without a step.

## Disagreements

Three runs end in a counterexample, each against a statement of the repository.

* `undeclared` (`MCDisasmUndeclared.cfg`, `CallsDeclared`).  A function's path is
  listed (204) before its file is created; if that fails (216) it stays listed.
  The next call of the function gets code 1, "already in the call list", "nothing
  needs doing here" (503-504), and is written as a call of `SUB_...`, which no
  header declares.
* `refused` (`MCSessionRefused.cfg`, `RefusedWritesNothing`).  A command that is
  turned down ("You need to be debugging to use this command", `plugin.cpp:83`)
  still runs the merge (`plugin.cpp:230`) and writes a header and a source from
  what the last command left.
* `import_missing` (`MCLoaderMissing.cfg`, `ImportsStay`).  `BuildImportTable` frees
  the library it could not bind (`MemoryModule.c:472`), which is in the list of
  libraries already; the failing load then frees the whole list (849-854), that
  library for the second time.  Another module that imports it loses it while it
  runs.

Other statements the code does not keep are definitions of the modules too.
Adding the name to the `INVARIANTS` of `MCDisasm.cfg`, `MCLoader.cfg`,
`MCRegistry.cfg` or `MCHelpers.cfg`, or to the `PROPERTIES` in the case of
`OrdinalsFound`, shows the counterexample:

| property | instance | statement | code |
|---|---|---|---|
| `ReturnsTrueOnSuccess` | `MCDisasm` | TRUE for success, FALSE for failure (`grcasm.h:41-42`) | 0 for success, 1 to 3 otherwise |
| `InTable` | `MCLoader` | an index that does not match is refused (`MemoryModule.c:826`) | the index one past the table is compared with `>` and answered (825) |
| `OrdinalsFound` | `MCLoader` | "Supports loading both by name and by ordinal value" (`MemoryModule.h:100-101`) | a directory without names answers NULL to every ordinal (`MemoryModule.c:771`) |
| `EnteredWithImports` | `MCLoader` | relocate, repair the IAT, run the entry (`MemoryOper.cpp:320`) | the IAT is repaired only inside `if(fHasRelocationTable(...))` (341) |
| `BlobOfOneMoment` | `MCRegistry` | "Allocate a buffer of proper size" (`WinReg.hpp:1043`) | binary data that shrinks between the calls comes back with its old size (1061) |
| `OwnKeyClosed` | `MCRegistry` | "Safely close any previously opened key" (`WinReg.hpp:540`), "kind of like a std::unique_ptr for HKEYs" (80-81) | two constructors call `Create` without having set `m_hKey` (358-367), and it closes what the memory held (541), perhaps a key another object owns |
| `LoadsIntoItsKey` | `MCRegistry` | `LoadKey` is among the wrappers of the key (`WinReg.hpp:256`) | it closes and forgets the key before it uses it (1301) |
| `FailuresToldApart` | `MCHelpers` | -1 and -2 for the two failures (`ProcessOper.cpp:128-129`) | 0 for both |
| `VectorFilled` | `MCHelpers` | an `_Out_` vector the demo reads (`MachineOper.cpp:11-16`) | the vector is passed by value |

`PlacedRight` holds only of inputs that the code takes for granted.  It is violated by
a file whose section has more raw data than pages (a member of `MCFiles` in `MCLoader`
without the bound on `raw`): the size is computed from `VirtualSize`, the copy takes
`SizeOfRawData` (`MemoryOper.cpp:109, 199`).  The run gives the module what a linker writes.
Likewise `SuccessIsOwn` holds only while a call and the late answers before it use no
more numbers than there are (`PingConstants`); two requests whose numbers meet after
65536 are not told apart by the program.

## Proofs

`tlapm <module>` for each of the eight proof modules.  The theorems hold for every
value of the constants, under the assumptions named in the modules:
`ImageConstants`, `DebuggerConstants` (what an image is: a decoded instruction has a
byte at least, an E9 jump does not lead to address 0), `DisasmConstants`,
`CallStackConstants`, `SessionConstants` (types; at least one try), `PingConstants` (a
call and the late answers before it use no more numbers than there are),
`MemoryModuleConstants`, `PagesConstants`, `FilesConstants`, `RollingFileConstants` and
`CodingConstants` (types; an image has a section), `SumsConstants` (types; a packet is so
short that the sum of its words fits where it is kept), `ExportConstants` (types),
`SplitsConstants` (types; no backslash in a word that is quoted), `ExportsConstants` (types; the names of
a directory are distinct), `ResourcesConstants` (types; a tree is finite),
`RegistryConstants` and `SharingConstants` (types; what there may be of names, adapters
and modules is finite; the callers of each kind are different ones).

| theorem | says |
|---|---|
| `DisasmProofs.TypeCorrect` | `Spec => []TypeOK` |
| `FunctionsDistinct` | `Spec => []DistinctFunctions`: no function is listed twice |
| `GdwOnce` | `Spec => []GdwDefinedOnce`: no address gets two variables |
| `RecursionBounded` | `Spec => []DepthBounded`: one activation past the maximum depth at most, and a depth is a place in the recursion |
| `WritersDistinct` | `Spec => []OneWriterPerFile`: open files and open activations correspond one to one |
| `ReturnCodesHonest` | `Spec => []ReturnCodeHonest`: what a return code says of the lists is so when the caller reads it |
| `CallsBound` | `Spec => []CallsAnchored`: every name a CALL uses has its variable or its listed function |
| `CalledDeclared` | `~ CreateMayFail`: `Spec => []CallsDeclared`: every `SUB` name has its declaration |
| `FinishedInOrder` | `Spec => []ClosedInOrder`, on any debuggee |
| `SweepsComplete` | `MaxPatches = 0`: `Spec => []SweepComplete`: a line for each instruction, and no other |
| `JumpsReachLabels` | `MaxPatches = 0`: `Spec => []JumpsLand`: a label stands where the jump goes and nowhere else |
| `RefinesExtraction` | `CodeAddress = Addr /\ Spec => ImplementsExtraction` |
| `CallStackProofs.TypeCorrect` | `Spec => []TypeOK` |
| `LinesPostOrder`, `DeepExactly` | the depth falls by at most one a line and the last line is at depth 0; "too deep" is said exactly at the maximum |
| `CalleesListed` | `Spec => []CalleesAccounted`: each callee met has its one line, or is being walked |
| `WalkedCallsMet` | images with `InstructionsApart`: `Spec => []WalkedIsClosed`: a callee reported as walked leaves no call unmet |
| `SessionProofs.SourceHasHeader`, `MergesOwn` | `SessionSpec => []SourceFitsHeader`, `SessionSpec => []AcceptedMergeIsOwn` |
| `MergesLink` | `~ CreateMayFail`, `~ ReadMayFail`: `SessionSpec => []MergedLinks` |
| `PingProofs.SuccessOwn` | `Spec => []SuccessIsOwn` |
| `MemoryModuleProofs.LivesInOrder` | `Spec => []LifeInOrder` |
| `PagesSetRight` | images that are `Linked`: `Pages!Spec => []PagesRight`, for every page size |
| `ExecutionPlaced` | files that are `Linked`: `Execution!Spec => []PlacedRight`, for every alignment, any number of sections, relocation blocks and imports |
| `FunctionsAnswered` | `Exports!Spec => AnswersRight`, for every directory, whatever search built the table |
| `ResourcesFound` | `Resources!Spec => []FoundRight`, for every finite tree and every size of the string blocks |
| `RegistryProofs.KeysOwnedOnce` | `Spec => []KeysOwned`, whatever the memory of new objects holds |
| `ValuesGot` | `Values!Spec => []ValuesRight`, for any strings, lists and binary data |
| `EnumerationsRight` | `Enumeration!Spec => []EnumerationRight` |
| `HelpersProofs.LogsRight` | `Spec => []LogFilesRight`, for any number of processes, threads and files |
| `LogRolls` | `Spec => OnlyOldestLost`: `RollingFile` implements `RollingLog` |
| `TracesWhole` | `Trace!Spec => []TextsWhole`, for any number of callers of each kind, and characters of one or two bytes |
| `AnswersTrue` | `Queries!Spec => []AnswersOfTheCall`, for an array of any size |
| `CodingProofs.UrlsComeBack` | `Url!Spec => []EncodingRight`, for texts and buffers of any length |
| `SumsCorrect` | `Sums!Spec => []SumsRight`, for any width of a byte and any buffer |
| `ArraysWhole` | `Export!Spec => []ExportRight`, for any length and each element size, over an earlier file or none |
| `SplitsCorrect` | `Splits!Spec => []SplitsRight`, for any text, pattern (also the empty one and those that overlap themselves), separators and words |

The hypotheses before a colon are those of the run that checks the property, for
without them the property is not true of the program (above and under
[Disagreements](#disagreements)).  `InstructionsApart` says that no decoded
instruction reaches into the next; `MCCallStack` has TLC check it of its images.
`Linked` says that the sections of an image are in order and apart, and that a kept
section with nothing in the file lies in the pages of the total that stands in for
its size; `MCLoader` has TLC check it of its images.
`Linked` of `MemExecute` says of a file that its sections lie behind the headers, in
order and apart, with no more raw data than their pages hold, or have no
addresses at all; and that no place is relocated in two blocks.  `MCLoader` has TLC
check it of its files.
`TypeOK`, `DepthBounded` and `DeepOnlyAtMaximum` are proved and not part of a run.

*The disassembler.*

* `TypeOK` is not inductive.  The end of a callee cut at an `int3` is the `int3`'s
  address minus one, which is an address only if the `int3` is not at 0.
  `TypeInv` adds `DestNonzero`: a callee being queried or trimmed, and the probe
  that looks for its `int3`, are not 0.  That holds because a CALL is followed
  only to a nonzero target and a thunk does not lead to 0.  There is a lemma per group
  of actions, on top of lemmas about what a read of the image, a return and a written
  line produce.
* `DistinctFunctions` is inductive over `TypeOK`.  `PathsStep` shows that a step
  leaves the list of paths alone or appends the running activation's start when
  that is not listed.
* `GdwDefinedOnce`: `CallAddressStep` shows that a step leaves the list of
  variables alone or calls `AddGlobalDWORDCallIntoCallAddressList` with some
  address.
* `DepthBounded` needs `DepthInv`: past its entry an activation is within the
  maximum depth, so that the one it starts is at most one beyond and leaves at
  once.  `StackStep` sorts the steps into those that return, those that recurse,
  and those that stay in their activation (`Stay`).
* `OneWriterPerFile` needs `WriterInv`, which adds that `files` and the list of
  paths are equally long.  `WriterStep` sorts the steps into the four that matter:
  one that opens a file, one that fails to, one that closes, and one that leaves
  the open activations and what is open as they are (`SameOpened`, `SameFiles`); each
  has its lemma.
* `ReturnCodeHonest` needs `CalleeLinked`: an activation starts at the callee its
  caller waits for, in the whole stack.  Then what `EntryCode` found about the callee
  is what the return code tells the caller, and nothing has been dropped from the
  lists in between.
* `CallsAnchored` needs `FilesDeclared`: a created file's function is declared.
  `NamesStep` shows that a step adds at most one name to those that CALLs use, and
  in one of three ways: with a variable saved in the same step, as a debugger label,
  or after a code 0 or 1, which `ReturnCodeHonest` makes a listed function.
  `AnchoredStays` shows that a name once bound stays bound, since the lists only grow.
* `CallsDeclared` follows from `CallsAnchored` once every file is created
  (`AllCreated`), which no action but `EnterCreateFails` disturbs.
* What the two sweeps of a function leave in its file needs invariants about every
  activation, the running and the suspended ones alike (`Opened`), because a recursion
  interrupts the second sweep in the middle of a line.  `SweepStep` sorts the steps once
  for all three properties: an activation either *rests* (it keeps its place, its
  jumps and its file's lines) or is the running one and *runs*.
  `OrderInv` (for `ClosedInOrder`): the lines so far rise and stay below the place of
  the sweep (`Swept`), unless the debuggee has gone and the sweep is `Stuck` on an
  instruction of size 0, from which it never comes to close the file; and an
  activation's end is the one its path was listed with (`EndsOwn`).
  `CompleteInv` (for `SweepComplete`): the lines are those of the instructions the
  sweep has passed (`Covered`).
  `LabelInv` (for `JumpsLand`): in the first pass the jumps collected are those of the
  instructions passed, with the entries of the tables; in the second every line has
  the labels of the jumps that go there, and every jump written is one collected.
* The refinement: `BegunListed` shows that `Extraction`'s functions begun are the
  listed paths, `RootFirst` that only the selected function is entered outside
  any other, and `StepMaps` joins a lemma per kind of step (`OpenBegins`,
  `FailureLoses`, `CloseFinishes`, `NameCalls`, `QuietMaps`), on the sorting of steps by
  `WriterStep` and `NamesStep`.  The hypothesis `CodeAddress = Addr` only says that
  `Extraction` may begin a function at any address; TLC's run gives it the addresses
  of its programs.

*The call-stack lister.*  `LinesInv` joins `PostOrder` and `DeepOnlyAtMaximum` with
`DepthInv` (an activation's depth is its place in the recursion, and a caller
resumes with code 2 exactly at the maximum) and `LastLineInv`: the last line is at
most one level below the activation that reads on, so the next line may not fall
by more than one.  `CalleesAccounted` needs `ApartInv`: the callees that suspended
activations wait for are different, because a callee is marked before it is walked;
without it a line could close two of them.
`WalkedIsClosed` needs `WalkedInv`: `PlacesMet` says that each activation, running or
suspended, has met the calls behind its place in the sweep, `EndsReach` that its end is
not before what a walk into its function has to sweep, and `WalkedClosed` draws the two
together when it returns.  `NothingBetween` is where `InstructionsApart` comes in: a sweep that moves on by
an instruction's size jumps over no other.

*Sessions.*  The walk inside a command is a walk of `Disasm` from the lists the
command cleared, so its lemmas carry over (`ExtractionStep`); what is added is
that the stack is empty when it is done (`DoneStep`).  `LinkInv` (for `MergedLinks`) says
that between two commands the header and the source on disk are what the lists of the
last extraction say: a refused command merges the same lists again.  `OwnInv` says which of the
tick, the directory and the segment are of the accepted command at which menu step:
the segment is, except while the menu is idle, when a callstack command may take it.
`FitInv` says that between the two files the header is what the source will be made
from.

*Ping.*  An answer carries the number of its request, and numbers come back after
`SeqSpace` requests.  The invariant therefore counts: each packet under way has an
age, how many requests ago its number was used (`OldEnough`); the age is less than
the late answers and the numbers used in this call together (`Used`), which
`PingConstants` keeps below `SeqSpace`; and age 0 is the last request's own.  Hence
no other packet has the number that is being waited for.

*Module loader.*  `StageInv` says what a module has taken at each place of its load and
its release.  The references are the difficulty: a library may be in one module's
list several times and in many modules'.  `RefsInv` counts the pairs of a module and
a position at which it holds the library, and states that the system's count is at
most the host's plus that number; each action adds or removes one pair or none.

*Pages.*  `PagesInv` says of a run that some section begins the sections that were
gathered (`GatheredFrom`); that the kept ones before it are settled (`Usable`,
`OwnRights`) and end on pages before its own (`Behind`), so that nothing the run still
does comes back to them.  `ExtentGone` is where the size of the gathered sections, which
is taken from the last of them alone, is shown to reach every page of the kept ones, and
`GoneBefore` where a section that shares no page is shown to lie behind them all.
`FinalizeSettles` joins the two for the three things finalizing may do.  The lemmas on
pages (`PageBounds`, `PageMonotone`, `PageBefore`) take the place of the divisions.

*Execution from memory.*  The size of the memory is added up section by section, and
where a section is copied to is worked out again, one section after another, when
all of it is allocated; the two have to agree.  `ExecutionInv` therefore says that there
is a sequence of the sizes after each section (`Sizes`), which never falls and of
which the size so far is the last; `SizeStep` shows that where a section goes lies
between two of them.  Then a copy ends where the next may begin (`CopyStep`), and
the last of them ends at the size allocated.  `Smallest` finds the first section of
a file, up to which the headers may reach (`HeadersFit`).  `Relocated` says which places
have had the difference added: those of the blocks behind, once (`RelocateStep`).

*Look-ups.*  Both rest on ranks: in a finite set with a total order (`Ordered`) the number
of elements before one (`Below`) grows with the element (`RankGrows`), and each number
less than the size is the rank of one element (`RankEach`).  So what `Sort` and `Entries`
choose by rank exists and is in order.  `ExportsInv` says that the table, once it is
sorted, is so and has the entries of the directory, and that in a search the entries
left behind are on their side of the name (`Halved`).  `ResourcesInv` says that the keys on
the way down are those asked for and that the rank of the next one, if it is there at
all, is in the range still to be searched (`SearchPlace`); an empty range then means that
it is missing.  Behind the names begins the range of the numbers (`OpenRange`), and the
first language is the only one that nothing is before (`FirstLanguage`).  That the walk
from string to string has a sum at all (`LengthsExist`) is shown by the first of them that had
none (`Smallest`), in the place of an induction.

*Registry values.*  `ValuesInv` says what the program set is what the key holds, strings
terminated and lists in the registry's form, until someone else writes (`SetHeld`); and that while a getter runs the
size it was told is that of some value of its type during the call, and of the only
one there was if the program set it (`SizeTold`).  `TakeStep` draws the conclusion for
each type when the contents are fetched.  For a list, `JoinedLaidOut` says where each
string is in what they make together (`LaidOut`), `BeginsBehind` that the parser's strings
begin at the same places, and `FormParsed` that it gives back what is in front of the
first empty one (`ListBack`); all three by the first string of which it is not so
(`Smallest`).

*Registry keys.*  `OwnedOnce` is `TypeOK` and `KeysOwned`, and inductive as it stands:
none of its three parts is kept without the others, for a close takes another
owner's key unless there is one owner to each, and a key that is opened has a handle
without an owner only if what is owned is open.  Once a constructor has closed a key
it found in its memory (`strayed`), none of them is claimed any more; that this happens
shows `OwnKeyClosed`.

*Enumerations.*  While the call runs, `Missing` says, as long as nothing was added: what was
there is listed, or nothing has changed and what is listed is its beginning, or fewer
names are left than were counted and the count will not be reached.  `Ahead` gives, as
long as nothing was removed, the places at which the old names are now, and which of
them are listed: those the index has passed.

*Rolling log.*  `LogInv` adds `Control`: who is between entering and leaving the
appender holds the lock, while files are renamed the process has its log closed, and
a log without a header is one that is about to get it.  A process may be ended in any of
these steps, which closes its handle and releases its lock at once.

That the log implements `RollingLog` is about a row of files read as one sequence.
Every step with the files is one of six (`FilesStep`): the oldest is deleted, and
what was behind its header is dropped from the front (`FlattenDrop`); a file is moved
into an empty place next to it, and nothing changes (`FlattenMove`); a record is added
to the last of the row (`FlattenAppend`); and an empty log, its header, or nothing.  The three
lemmas are about rows of any length: that two rows which are the same behind a place
stay the same (`JoinsBehind`) is shown by way of the first place of which it is not so
(`Smallest`).

*Traced file.*  `OpenTogether` is what the sharing modes give: those who have the file
open are all tracers or all readers, or one writer.  A text traced alone, or the
part of it that was handed over (`Handed`), has a place at which it stands (`StandsAt`) that lies before the position of everyone about to
write; a writer's progress is a beginning of its text (`WritersInv`); a reader's size is
the file's (`ReadersInv`).

*URL coders.*  While a text is encoded there is a sequence of the places at which the
characters so far begin (`LaidOut`): each is behind the one before it by its width, stands
there whole, and the last ends where the text does.  The decoder is always at one of
these places, and its position in the text is the number of characters it gave back;
`CharacterBack` says that what it decodes there is the character, and that it may only
end at the last one.  Where encoding ended, the next character does not fit (`NoMore`).

*Checksums.*  Sums of rows of numbers of any length are reasoned about without an
induction: that there is a sum (`AddsExist`), and that the sums of two rows make that of
the row of their sums (`AddsBoth`), is shown by the first place at which it would not be
so (`Smallest`).  Hence what one more byte does to the sum and, with `TotalWeighted`, to
the sum of sums; `Remainders` says that a remainder may be taken at once or at the end.
In a packet the sum is at most a word for every two bytes (`Summed`), therefore at most
`(Word - 1) * Word`; `FoldedRight` shows for every such sum that adding the carries
twice leaves a multiple of `Word - 1`: the carry is none or one, and in neither case
does a third come.

*Array export.*  `Exported` says that what this export has written so far has an
element for every step of the loop, and that the loop is not more than one element past
the end; `BehindEarlier` that it stands behind what the file held when it was opened.
`ElementsJoin` puts the bytes of the elements together, again by the first place where
they would not fit (`RowsJoin`).  `LineElements` says of the three element sizes how
many elements a line has, the first one more than the others, and `LineBytes` turns
this into bytes.

*String splitters.*  What comes of a text from each place on is a function (`Cut`,
`Separated`); that it exists is shown from the end of the text (`RestExists`), by the last
place at which it would not.  The invariant is that what the loop has taken, joined with
what is to come from its position on, is what comes of the whole text (`PatternAt`,
`SeparatorsAt`).  `split` looks in a text with the pattern added: `FoundBehind` says that
it finds the same places there as long as they lie in the text, and `FoundInPrefix` that
the places are those of any beginning of the text that contains them.  `PatternTurn` is a
turn that finds a pattern in the text; `EndTaken` is the one that finds it across the
end, which takes as much of the text as `Overlaps` allows, and nothing if the pattern
does not end as it begins.  With the empty pattern no turn moves the loop
(`EmptyPatternStep`).  For a quoted list `Written` says at which
place of the text each character of a word stands, escaped or not, and `At` that the loop is at
one of these places with the beginning of the word collected up to there; `FlattenLaid` says that
what `Quoted` puts together lies in this way in the text, by the first row that does
not.

*Queries.*  `Still` says that what has been known during the call is only the present.
For adapters the invariant says what that makes of the answer: with `Still` the size
asked for is enough for the set to be fetched.  For modules it counts: those named,
those without a name and the handles left are together as many as there were modules at
one moment of the call (`Accounted`); and none of them stands for one module twice
(`Divided`), unless there were more modules at one moment than at another (`Grown`), for
only then is there a handle that was never written.

Only model-checked, and why:

* `LoadersEnd`, `EndsUnlessGone`, `CommandsEnd`, `Terminates`, `HelpersEnd`: liveness, which
  needs fairness and `ENABLED`.

## Limits

Assumed of what is outside `src/`:

* Memory that cannot be read or decoded decodes as one byte, as long as there is a
  debuggee; without one every read gives an instruction of size 0.
* `analr a` registers the function that starts at `a`, if the analyser sees one
  there.  It may do so at any time after it was queued, or never.
* Labels do not change during an extraction and name one address each.
* The GUI thread runs the command, so the selection does not change in it and no
  second command starts.
* The path of the program can be read (`GetModuleFileNameA`).
* Windows: an image's libraries are counted by references; the protection of memory is
  per page; a file that is opened without sharing is not opened by another; a
  renaming fails while the source is open and the target exists; `RegGetValue`
  terminates strings and refuses a buffer that is too small; `GetAdaptersInfo` fails only
  for a buffer that is too small or without adapters.

Left out of the models:

* 32-bit wrap-around of addresses.  Addresses are naturals; a function that ends
  at the last byte of the address space is not covered.
* `gdwTick` in the names inside one extraction, where it is constant; `Session`
  keeps it as `listsTick`.
* The maximum depth is one constant per run instead of one per command.
* In `Session` a callstack command is one step that overwrites the segment and may
  leave analyses queued; its walk is `CallStack`.
* In `Ping`: the resolution of the name, the reply's statistics;
  another process whose id has the same low 16 bits; more requests with open replies
  than there are sequence numbers.
* In `MemoryModule`: TLS callbacks, the tables of 64-bit images, the bytes of the
  headers.  Callers do not free a module twice or use one that is freed.
* In `ResourceTree`: the copying of a string into the caller's buffer, with its `maxsize`
  and terminator (`MemoryModule.c:1102-1119`); the module says where the string is found.
* In `MemExecute`: files that no linker writes (see Disagreements), among them one whose
  import directory has the address 0, where the head of the image is taken for the table
  of imports (`MemoryOper.cpp:344`).
* The registry is modelled in its Unicode build, where characters and bytes differ by
  a factor the sizes of the model are already divided by.  The option to expand what is
  between percent signs (`WinReg.hpp:906-909`) is not modelled.
* In `UrlCoding`: texts to be decoded that the coder did not write, such as escapes cut
  off or with other digits.
* In `RollingFile`: formatters and converters; the size of a record is one.  The run has a
  maximum of size and files, as plog offers them.  `fplogInit` leaves both at
  their default 0 (`TraceLog.cpp:251`), so the log that this program sets up itself never rolls: what `LogFilesRight` and
  `OnlyOldestLost` say of rolling, and the hazards at `RollingFileAppender.h`, concern the
  library as BlackStorm ships it.

### Not modelled

* *Declarations.*  24,400 of the repository's lines are the headers in
  `src/gcrasm2/pluginsdk` (the interfaces of x64dbg, capstone, yara, dbghelp,
  TitanEngine and others), and 4,003 are `easylogging++.h`, a logger by other authors
  that nothing here uses.  They have no behaviour of this program.  The map covers
  some 4,100 lines of the 9,000 or so that are left: nine tenths of `grcasm.cpp`, four
  fifths of `ParseUrl.cpp`, about two thirds of `plugin.cpp`, `WinReg.hpp`,
  `MemoryModule.c` and the appender, half of `MemoryOper.cpp`.
* *Registration* (`pluginmain.cpp`, the callbacks of `plugin.cpp`): straight lines of
  calls to the debugger, and callbacks that log.
* *`deobfuscate.cpp`*: empty.
* *Single calls.*  The injector, the listing of memory regions, the conversions of code
  pages and numbers, the formatting of times and addresses: one call of Windows or of
  the C library after another, each with its early return, and nothing kept.
* *plog's other parts*: formatters, converters, and appenders that nothing installs.

## Plan

Built so far, most important behaviour first: `DebuggerImage`, `Debugger`,
`Disasm` with its runs; `Extraction` and the refinement; `CallStack`; `Session`;
`Ping`; the loaders, the registry and the helpers of BlackStorm; the rolling log and
its refinement; the proofs of every safety invariant of `Disasm`, of the refinement, and
of the safety of `CallStack`, `Session`, `Ping`, `MemoryModule`, `SectionPages`,
`ExportTable`, `ResourceTree`, `MemExecute`, `RegKeys`, `RegValues`, `RegEnumeration`,
`RollingFile`, `TraceFile`, `SystemQueries`, `StringSplits`, `UrlCoding`, `Checksums`
and `ArrayExport`.

Next, models:

1. The maximum depth per command, and the walk of `CallStack` composed into
   `Session`.
2. TLS callbacks in `MemoryModule`, between relocation and entry.
3. `RegEnumeration` with the handle of `RegKeys`, which an enumeration keeps open.

Next, proofs:

1. That a reader of `TraceFile` and a caller of `SystemQueries` get no answer of an
   earlier call.
