------------------------------- MODULE Disasm -------------------------------
(***************************************************************************)
(* fGetRunableASMCodeToFile: the recursive extraction of a selected        *)
(* function and of the functions it calls into naked-function source       *)
(* files.  One activation of the C++ function is a frame; the C++ call     *)
(* stack is the variable stack.  Between any two steps of the walk the     *)
(* debugger's analysis queue may run and the debuggee, which is not        *)
(* suspended, may change its code.                                         *)
(***************************************************************************)
EXTENDS Debugger

CONSTANTS
  Selections,        \* the ranges the user may select
  gdwMaxCallNumber,  \* 5 .. 30 in the menu
  MaxTries,          \* 10, polls for the analyser's answer
  CreateMayFail,     \* whether CreateFileA may fail
  MaxLines           \* bound on the lines of a file, for a debuggee that ends

ASSUME DisasmConstants ==
  /\ Selections \subseteq Range32
  /\ gdwMaxCallNumber \in Nat
  /\ MaxTries \in Nat \ {0}
  /\ CreateMayFail \in BOOLEAN
  /\ MaxLines \in Nat

VARIABLES
  pc,           \* where the running activation is
  cur,          \* its local variables
  stack,        \* the suspended activations, outermost first
  ret,          \* the value the last activation returned
  gvDisassembleFilePaths,
  gvDisassembleFunctionDeclaration,
  gvdwCallAddress,
  files         \* files[i] is the file at the i-th listed path

lists == <<gvDisassembleFilePaths, gvDisassembleFunctionDeclaration,
           gvdwCallAddress, files>>
walk == <<pc, cur, stack, ret>>
vars == <<debugger, walk, lists>>

(* An entry of listJump; listJumpTable holds the entries of type "table".  *)
Jump == [type : {"addr", "table"}, eip : Addr, to : Addr, n : Nat, k : Nat]

(***************************************************************************)
(* What one swept instruction leaves in the file: the jump labels written  *)
(* before it, what became of its text, and the names the text refers to.   *)
(***************************************************************************)
Line == [ip : Addr, labels : SUBSET Name,
         text : {"raw", "comment", "bytes", "call", "jump", "switch"},
         refs : SUBSET Name]

File == [created : BOOLEAN, lines : Seq(Line), closed : BOOLEAN]

Path == [start : Addr, end : Addr, depth : Nat]

Frame == [start : Addr, end : Addr, depth : Nat, file : Nat, ip : Addr,
          jumps : SUBSET Jump, jmpCount : Nat, first : Nat, second : Nat,
          instr : Instr, dest : Addr, tries : Nat, nextEnd : Addr,
          probe : Addr]

Activation(start, end, depth) ==
  [start |-> start, end |-> end, depth |-> depth, file |-> 0, ip |-> start,
   jumps |-> {}, jmpCount |-> 0, first |-> 0, second |-> 0,
   instr |-> Undecoded, dest |-> 0, tries |-> 0, nextEnd |-> 0, probe |-> 0]

Locations == {"enter", "scan", "table", "emit", "post", "query", "trim",
              "returned", "done"}

TypeOK ==
  /\ DebuggerTypeOK
  /\ pc \in Locations
  /\ cur \in Frame
  /\ stack \in Seq(Frame)
  /\ ret \in 0 .. 3
  /\ gvDisassembleFilePaths \in Seq(Path)
  /\ gvDisassembleFunctionDeclaration \in Seq(Name)
  /\ gvdwCallAddress \in Seq(Addr)
  /\ files \in Seq(File)

Init ==
  /\ DebuggerInit
  /\ pc = "enter"
  /\ \E sel \in Selections : cur = Activation(sel.start, sel.end, 0)
  /\ stack = <<>>
  /\ ret = 0
  /\ gvDisassembleFilePaths = <<>>
  /\ gvDisassembleFunctionDeclaration = <<>>
  /\ gvdwCallAddress = <<>>
  /\ files = <<>>

Here == DbgDisasmAt(image, cur.ip)

----------------------------------------------------------------------------
(* Entry and return.                                                       *)

(* Mutant: only files that exist count as listed.                          *)
ListedMutant(a) == \E i \in DOMAIN gvDisassembleFilePaths :
                      /\ gvDisassembleFilePaths[i].start = a
                      /\ files[i].created

Listed(a) == \E i \in DOMAIN gvDisassembleFilePaths :
                gvDisassembleFilePaths[i].start = a

(* Mutant: too deep is answered like already written.                      *)
EntryCodeListedMutant(f) ==
  IF f.depth > gdwMaxCallNumber \/ Listed(f.start) THEN 1 ELSE 0

(* The checks in the order the code makes them: the depth is looked at     *)
(* before the list of functions already written.                           *)
EntryCode(f) ==
  IF f.start \in gvdwIgnoreCallAddress THEN 3
  ELSE IF f.depth > gdwMaxCallNumber THEN 2
  ELSE IF Listed(f.start) THEN 1 ELSE 0

Return(code) ==
  /\ ret' = code
  /\ IF stack = <<>>
     THEN pc' = "done" /\ UNCHANGED <<cur, stack>>
     ELSE /\ pc' = "returned"
          /\ cur' = stack[Len(stack)]
          /\ stack' = SubSeq(stack, 1, Len(stack) - 1)

EnterRefused ==
  /\ pc = "enter"
  /\ EntryCode(cur) # 0
  /\ Return(EntryCode(cur))
  /\ UNCHANGED <<debugger, lists>>

ListPath ==
  gvDisassembleFilePaths' =
    Append(gvDisassembleFilePaths,
           [start |-> cur.start, end |-> cur.end, depth |-> cur.depth])

(* The path is listed before the file exists, and stays listed when it     *)
(* cannot be created.                                                      *)
EnterCreateFails ==
  /\ pc = "enter"
  /\ EntryCode(cur) = 0
  /\ CreateMayFail
  /\ ListPath
  /\ files' = Append(files,
                     [created |-> FALSE, lines |-> <<>>, closed |-> FALSE])
  /\ Return(3)
  /\ UNCHANGED <<debugger, gvDisassembleFunctionDeclaration, gvdwCallAddress>>

EnterOpen ==
  /\ pc = "enter"
  /\ EntryCode(cur) = 0
  /\ ListPath
  /\ files' = Append(files,
                     [created |-> TRUE, lines |-> <<>>, closed |-> FALSE])
  /\ gvDisassembleFunctionDeclaration' =
       Append(gvDisassembleFunctionDeclaration, FunctionName(cur.start))
  /\ pc' = "scan"
  /\ cur' = [cur EXCEPT !.file = Len(gvDisassembleFilePaths) + 1]
  /\ UNCHANGED <<debugger, stack, ret, gvdwCallAddress>>

----------------------------------------------------------------------------
(* First pass: collect the jumps.                                          *)

TableJump(i) == IsBranch(i) /\ i.arg = "memory"

(* Every branch to a fixed address gets a label, a CALL's target too.      *)
ScanPlain ==
  /\ pc = "scan"
  /\ cur.ip <= cur.end
  /\ ~ TableJump(Here)
  /\ cur' = IF IsBranch(Here) /\ Here.constant > 0
            THEN [cur EXCEPT
                    !.jumps = @ \cup {[type |-> "addr", eip |-> cur.ip,
                                       to |-> Here.constant,
                                       n |-> cur.jmpCount, k |-> 0]},
                    !.jmpCount = @ + 1,
                    !.ip = @ + Here.size]
            ELSE [cur EXCEPT !.ip = @ + Here.size]
  /\ UNCHANGED <<debugger, pc, stack, ret, lists>>

ScanTable ==
  /\ pc = "scan"
  /\ cur.ip <= cur.end
  /\ TableJump(Here)
  /\ pc' = "table"
  /\ cur' = [cur EXCEPT !.instr = Here, !.second = 0]
  /\ UNCHANGED <<debugger, stack, ret, lists>>

TableEntry == ReadDword(image, cur.instr.constant + 4 * cur.second)

InFunction(a) == cur.start <= a /\ a <= cur.end

(* Mutant: the offset into the table is not advanced.                      *)
ScanTableEntryMutant ==
  /\ pc = "table"
  /\ InFunction(TableEntry)
  /\ cur' = [cur EXCEPT
               !.jumps = @ \cup {[type |-> "table", eip |-> cur.ip,
                                  to |-> TableEntry,
                                  n |-> cur.first, k |-> cur.second]}]
  /\ UNCHANGED <<debugger, pc, stack, ret, lists>>

(* The table has no length: it ends at the first dword outside the         *)
(* function.                                                               *)
ScanTableEntry ==
  /\ pc = "table"
  /\ InFunction(TableEntry)
  /\ cur' = [cur EXCEPT
               !.jumps = @ \cup {[type |-> "table", eip |-> cur.ip,
                                  to |-> TableEntry,
                                  n |-> cur.first, k |-> cur.second]},
               !.second = @ + 1]
  /\ UNCHANGED <<debugger, pc, stack, ret, lists>>

ScanTableEnd ==
  /\ pc = "table"
  /\ ~ InFunction(TableEntry)
  /\ pc' = "scan"
  /\ cur' = [cur EXCEPT !.first = @ + 1, !.ip = @ + cur.instr.size]
  /\ UNCHANGED <<debugger, stack, ret, lists>>

(* Mutant: the second pass goes on from where the first one ended.         *)
ScanDoneMutant ==
  /\ pc = "scan"
  /\ cur.end < cur.ip
  /\ pc' = "emit"
  /\ UNCHANGED <<debugger, cur, stack, ret, lists>>

ScanDone ==
  /\ pc = "scan"
  /\ cur.end < cur.ip
  /\ pc' = "emit"
  /\ cur' = [cur EXCEPT !.ip = cur.start]
  /\ UNCHANGED <<debugger, stack, ret, lists>>

----------------------------------------------------------------------------
(* Second pass: write one line per instruction.                            *)

LabelName(j) == [form |-> IF j.type = "addr" THEN "LABEL" ELSE "SWITCH_CASE",
                 n |-> j.n, k |-> j.k]

JumpsFrom(a, type) == {j \in cur.jumps : j.eip = a /\ j.type = type}

(* A jump whose target carries a debugger label is written with that       *)
(* label, any other one with the label of the first pass.                  *)
JumpRefs(i) ==
  {IF i.constant \in Labelled THEN FunctionName(i.constant) ELSE LabelName(j) :
     j \in JumpsFrom(cur.ip, "addr")}

JumpText(i) ==
  IF IsFixedJump(i) /\ JumpsFrom(cur.ip, "addr") # {}
  THEN [text |-> "jump", refs |-> JumpRefs(i)]
  ELSE [text |-> "raw", refs |-> {}]

(* A switch becomes a CMP and a JE per entry, nothing when it has none.    *)
SwitchText ==
  [text |-> "switch",
   refs |-> {LabelName(j) : j \in JumpsFrom(cur.ip, "table")}]

PlainText(text) == [text |-> text, refs |-> {}]

(* The text of every instruction but a CALL that is followed.              *)
Text(i) ==
  CASE i.op = "call" ->
         PlainText(IF CallJumpAddress(i) >= gdwBigCallAddress
                   THEN "bytes" ELSE "raw")
    [] i.op = "jmp" /\ i.arg = "memory" ->
         IF i.scaled THEN SwitchText ELSE PlainText("raw")
    [] i.op = "jmp" /\ i.arg = "normal" -> JumpText(i)
    [] i.op = "jxx" -> JumpText(i)
    [] i.op = "nop" -> PlainText("comment")
    [] i.op = "bytes" -> PlainText("bytes")
    [] OTHER -> PlainText("raw")

CallText(name) == [text |-> "call", refs |-> {name}]

(* Mutant: the labels of switch cases are not placed.                      *)
LabelsHereMutant ==
  {LabelName(j) : j \in {x \in cur.jumps : x.to = cur.ip /\ x.type = "addr"}}

LabelsHere == {LabelName(j) : j \in {x \in cur.jumps : x.to = cur.ip}}

(* Writes the labels of this address, then the text of instruction i.      *)
WriteInstr(i, t) ==
  /\ Len(files[cur.file].lines) < MaxLines
  /\ files' = [files EXCEPT ![cur.file].lines =
                 Append(@, [ip |-> cur.ip, labels |-> LabelsHere,
                            text |-> t.text, refs |-> t.refs])]
  /\ cur' = [cur EXCEPT !.ip = @ + i.size]
  /\ pc' = "emit"
  /\ UNCHANGED <<debugger, stack, ret, gvDisassembleFilePaths,
                 gvDisassembleFunctionDeclaration>>

(* Mutant: the address is added without a look at the list.                *)
AddGlobalDWORDCallTwiceMutant(a) ==
  gvdwCallAddress' = Append(gvdwCallAddress, a)

AddGlobalDWORDCallIntoCallAddressList(a) ==
  gvdwCallAddress' = IF \E i \in DOMAIN gvdwCallAddress : gvdwCallAddress[i] = a
                     THEN gvdwCallAddress
                     ELSE Append(gvdwCallAddress, a)

(* A CALL is followed into code that is neither past the game's code nor   *)
(* in a system module.                                                     *)
IsFollowed(i) ==
  /\ i.op = "call"
  /\ CallJumpAddress(i) # 0
  /\ CallJumpAddress(i) < gdwBigCallAddress
  /\ ~ IsAddressInSysDll(CallJumpAddress(i))

Callee(i) == FollowThunk(image, CallJumpAddress(i))

EmitPlain ==
  /\ pc = "emit"
  /\ cur.ip <= cur.end
  /\ ~ IsFollowed(Here)
  /\ WriteInstr(Here, Text(Here))
  /\ UNCHANGED gvdwCallAddress

(* The thunk leads past the game's code: gdw, label or not.                *)
EmitCallBig ==
  /\ pc = "emit"
  /\ cur.ip <= cur.end
  /\ IsFollowed(Here)
  /\ Callee(Here) >= gdwBigCallAddress
  /\ AddGlobalDWORDCallIntoCallAddressList(Callee(Here))
  /\ WriteInstr(Here, CallText(GdwName(Callee(Here))))

EmitCall ==
  /\ pc = "emit"
  /\ cur.ip <= cur.end
  /\ IsFollowed(Here)
  /\ Callee(Here) < gdwBigCallAddress
  /\ pc' = "post"
  /\ cur' = [cur EXCEPT !.instr = Here, !.dest = Callee(Here), !.tries = 0]
  /\ UNCHANGED <<debugger, stack, ret, lists>>

(* Mutant: the file is not closed.                                         *)
EmitDoneMutant ==
  /\ pc = "emit"
  /\ cur.end < cur.ip
  /\ Return(0)
  /\ UNCHANGED <<debugger, lists>>

EmitDone ==
  /\ pc = "emit"
  /\ cur.end < cur.ip
  /\ files' = [files EXCEPT ![cur.file].closed = TRUE]
  /\ Return(0)
  /\ UNCHANGED <<debugger, gvDisassembleFilePaths,
                 gvDisassembleFunctionDeclaration, gvdwCallAddress>>

----------------------------------------------------------------------------
(* A followed CALL: ask the analyser for the callee, then recurse.         *)

PostAnalysis ==
  /\ pc = "post"
  /\ DbgCmdExec(cur.dest)
  /\ pc' = "query"
  /\ UNCHANGED <<cur, stack, ret, lists>>

(* The callee's end is that of the registered function; its start stays    *)
(* the call's target even where the two differ.                            *)
QueryKnown ==
  /\ pc = "query"
  /\ \E f \in GetInfo(cur.dest) :
       cur' = [cur EXCEPT !.nextEnd = f.end, !.probe = cur.dest]
  /\ pc' = "trim"
  /\ UNCHANGED <<debugger, stack, ret, lists>>

(* Mutant: the tries are not counted.                                      *)
QueryRetryMutant ==
  /\ pc = "query"
  /\ GetInfo(cur.dest) = {}
  /\ cur.tries + 1 < MaxTries
  /\ pc' = "post"
  /\ UNCHANGED <<debugger, cur, stack, ret, lists>>

QueryRetry ==
  /\ pc = "query"
  /\ GetInfo(cur.dest) = {}
  /\ cur.tries + 1 < MaxTries
  /\ cur' = [cur EXCEPT !.tries = @ + 1]
  /\ pc' = "post"
  /\ UNCHANGED <<debugger, stack, ret, lists>>

(* Mutant: the gdw variable is used but not saved.                         *)
CallFallbackMutant ==
  /\ UNCHANGED gvdwCallAddress
  /\ WriteInstr(cur.instr, CallText(FallbackName(cur.dest)))

(* The CALL line of a callee that will not be disassembled.                *)
CallFallback ==
  /\ IF cur.dest \in Labelled
     THEN UNCHANGED gvdwCallAddress
     ELSE AddGlobalDWORDCallIntoCallAddressList(cur.dest)
  /\ WriteInstr(cur.instr, CallText(FallbackName(cur.dest)))

QueryFailed ==
  /\ pc = "query"
  /\ GetInfo(cur.dest) = {}
  /\ cur.tries + 1 >= MaxTries
  /\ CallFallback

(* Mutant: the search for the int3 stays where it is.                      *)
TrimStepMutant ==
  /\ pc = "trim"
  /\ cur.probe <= cur.nextEnd
  /\ DbgDisasmAt(image, cur.probe).op # "int3"
  /\ UNCHANGED vars

(* _AnalysisFunction cuts the callee off before its first int3.            *)
TrimStep ==
  /\ pc = "trim"
  /\ cur.probe <= cur.nextEnd
  /\ DbgDisasmAt(image, cur.probe).op # "int3"
  /\ cur' = [cur EXCEPT !.probe = @ + DbgDisasmAt(image, cur.probe).size]
  /\ UNCHANGED <<debugger, pc, stack, ret, lists>>

Recurse(end) ==
  /\ stack' = Append(stack, cur)
  /\ cur' = Activation(cur.dest, end, cur.depth + 1)
  /\ pc' = "enter"
  /\ UNCHANGED <<debugger, ret, lists>>

TrimAtInt3 ==
  /\ pc = "trim"
  /\ cur.probe <= cur.nextEnd
  /\ DbgDisasmAt(image, cur.probe).op = "int3"
  /\ Recurse(cur.probe - 1)

TrimWhole ==
  /\ pc = "trim"
  /\ cur.nextEnd < cur.probe
  /\ Recurse(cur.nextEnd)

(* Codes 0 and 1: the callee is (taken to be) written, call it by name.    *)
ReturnedWritten ==
  /\ pc = "returned"
  /\ ret \in {0, 1}
  /\ WriteInstr(cur.instr, CallText(FunctionName(cur.dest)))
  /\ UNCHANGED gvdwCallAddress

(* Codes 2 and 3: too deep, ignored, or not created.                       *)
ReturnedRefused ==
  /\ pc = "returned"
  /\ ret \in {2, 3}
  /\ CallFallback

----------------------------------------------------------------------------

Enter == EnterRefused \/ EnterCreateFails \/ EnterOpen
Scan == ScanPlain \/ ScanTable \/ ScanTableEntry \/ ScanTableEnd \/ ScanDone
Emit == EmitPlain \/ EmitCallBig \/ EmitCall \/ EmitDone
Query == PostAnalysis \/ QueryKnown \/ QueryRetry \/ QueryFailed
Trim == TrimStep \/ TrimAtInt3 \/ TrimWhole
Returned == ReturnedWritten \/ ReturnedRefused

Walk == Enter \/ Scan \/ Emit \/ Query \/ Trim \/ Returned

(* The command has returned to the menu.                                   *)
Terminated == pc = "done" /\ UNCHANGED vars

Next ==
  \/ Walk
  \/ DebuggerNext /\ UNCHANGED <<walk, lists>>
  \/ Terminated

(* The walk runs on the GUI thread and never waits for anything but its    *)
(* own sleeps, so it is weakly fair; nothing is assumed of the debugger.   *)
Spec == Init /\ [][Next]_vars /\ WF_vars(Walk)
----------------------------------------------------------------------------
(* Properties.                                                             *)

(* The open activations: those that created a file and did not close it.   *)
Opened == IF pc \in {"enter", "done"} THEN stack ELSE Append(stack, cur)

Declared(name) ==
  \E i \in DOMAIN gvDisassembleFunctionDeclaration :
     gvDisassembleFunctionDeclaration[i] = name

(* The names used by the CALL lines of all files.                          *)
CalledNames ==
  UNION {UNION {files[i].lines[j].refs :
                  j \in {x \in DOMAIN files[i].lines :
                           files[i].lines[x].text = "call"}} :
           i \in DOMAIN files}

(* No function is extracted twice, whatever calls it, however deep, through*)
(* a thunk or directly, itself included (the list scan at                  *)
(* grcasm.cpp:170-176 against the push at 204).                            *)
DistinctFunctions ==
  \A i, j \in DOMAIN gvDisassembleFilePaths :
     gvDisassembleFilePaths[i].start = gvDisassembleFilePaths[j].start => i = j

(* The recursion never gets past one level below the maximum, and a frame's*)
(* depth is its place in the call stack (grcasm.cpp:164, 501).             *)
DepthBounded ==
  /\ \A i \in DOMAIN stack : stack[i].depth = i - 1
  /\ pc # "done" => cur.depth = Len(stack)
  /\ cur.depth <= gdwMaxCallNumber + 1
  /\ Len(stack) <= gdwMaxCallNumber + 1

(* Every file being written belongs to exactly one activation, which is the*)
(* one its path was listed for: two activations never write one file, and  *)
(* none is left open (grcasm.cpp:204, 210, 885).                           *)
OneWriterPerFile ==
  /\ \A i \in DOMAIN Opened :
       /\ Opened[i].file \in DOMAIN files
       /\ files[Opened[i].file].created
       /\ ~ files[Opened[i].file].closed
       /\ gvDisassembleFilePaths[Opened[i].file].start = Opened[i].start
  /\ \A i, j \in DOMAIN Opened : Opened[i].file = Opened[j].file => i = j
  /\ \A k \in DOMAIN files : files[k].created /\ ~ files[k].closed =>
       \E i \in DOMAIN Opened : Opened[i].file = k

(* What a return code tells the caller about the lists at that moment      *)
(* (grcasm.cpp:501-543 relies on it): 0 and 1, the callee's path is listed;*)
(* 2, the caller is at the maximum depth; 3, its file was not created.     *)
ReturnCodeHonest ==
  pc = "returned" =>
    /\ ret \in {0, 1, 3} => Listed(cur.dest)
    /\ ret = 2 => cur.depth = gdwMaxCallNumber
    /\ ret = 3 => \E i \in DOMAIN files :
                    /\ gvDisassembleFilePaths[i].start = cur.dest
                    /\ ~ files[i].created

(* Every name a CALL line uses can be bound: a gdw name has its variable   *)
(* in gvdwCallAddress, and a SUB name is that of a listed function whose   *)
(* declaration was saved, unless its file could not be created.            *)
CallsAnchored ==
  \A r \in CalledNames :
    /\ r.form = "gdw" => \E i \in DOMAIN gvdwCallAddress :
                            gvdwCallAddress[i] = r.n
    /\ r.form = "SUB" =>
         \E i \in DOMAIN gvDisassembleFilePaths :
            /\ gvDisassembleFilePaths[i].start = r.n
            /\ files[i].created => Declared(r)

(* A SUB name in a CALL is declared in the header: what grcasm.cpp:503     *)
(* assumes when it takes code 1 to mean the callee needs nothing more.     *)
CallsDeclared ==
  \A r \in CalledNames : r.form = "SUB" => Declared(r)

(* The gdw variables are defined once each (grcasm.cpp:80-88), or the      *)
(* merged source would define one twice.                                   *)
GdwDefinedOnce ==
  \A i, j \in DOMAIN gvdwCallAddress :
     gvdwCallAddress[i] = gvdwCallAddress[j] => i = j

(* Where the jump written for the instruction at ip with name r goes.      *)
JumpTarget(ip, r) ==
  IF r.form = "LABEL" THEN DbgDisasmAt(image, ip).constant
  ELSE ReadDword(image, DbgDisasmAt(image, ip).constant + 4 * r.k)

(* A local label named by a jump or a switch of a finished file stands in  *)
(* that file on the line of the jump's target and on no other, when the    *)
(* sweep met the target as an instruction (grcasm.cpp:251-310 collects the *)
(* labels in one pass, 593-766 refer to them and 856-873 place them in the *)
(* other).  Stated for a debuggee whose code does not change.              *)
JumpsLand ==
  \A i \in DOMAIN files : files[i].closed =>
    \A j \in DOMAIN files[i].lines :
      \A r \in files[i].lines[j].refs : r.form \in {"LABEL", "SWITCH_CASE"} =>
        LET target == JumpTarget(files[i].lines[j].ip, r)
        IN  \A k \in DOMAIN files[i].lines :
              (files[i].lines[k].ip = target) <=> (r \in files[i].lines[k].labels)

(* A finished file has one line for every instruction from the function's  *)
(* start up to the last one at or before its end, in order, whatever was   *)
(* extracted in between (grcasm.cpp:313-314, 878).  Stated for a debuggee  *)
(* whose code does not change.                                             *)
SweepComplete ==
  \A i \in DOMAIN files : files[i].closed =>
    LET lines == files[i].lines
        path == gvDisassembleFilePaths[i]
        after(k) == lines[k].ip + DbgDisasmAt(image, lines[k].ip).size
    IN  /\ path.start <= path.end => lines # <<>> /\ lines[1].ip = path.start
        /\ \A k \in DOMAIN lines : lines[k].ip <= path.end
        /\ \A k \in DOMAIN lines : IF k < Len(lines)
                                     THEN lines[k + 1].ip = after(k)
                                     ELSE after(k) > path.end

(* A finished file runs through the function from its start, each address  *)
(* once and in order, also when the code changed or the debuggee ended in  *)
(* the middle: a sweep that stays at one address never closes its file     *)
(* (grcasm.cpp:314-316, 878-885).                                          *)
ClosedInOrder ==
  \A i \in DOMAIN files : files[i].closed =>
    LET lines == files[i].lines
        path == gvDisassembleFilePaths[i]
    IN  /\ path.start <= path.end => lines # <<>>
        /\ lines # <<>> => lines[1].ip = path.start /\ lines[Len(lines)].ip <= path.end
        /\ \A k \in 1 .. Len(lines) - 1 : lines[k].ip < lines[k + 1].ip

(* The documented result (grcasm.h:41-42): TRUE when the call succeeded.   *)
ReturnsTrueOnSuccess ==
  pc = "done" /\ files # <<>> /\ files[1].closed => ret # 0

(* The command ends, with recursive and mutually recursive functions, when *)
(* files cannot be created and whether or not the analyser ever answers;   *)
(* or the debuggee has ended first, the one thing that can keep a sweep    *)
(* where it is (grcasm.cpp:309, 878, 148).                                 *)
EndsUnlessGone == <>(pc = "done" \/ ~ image.alive)
=============================================================================
