----------------------------- MODULE CallStack ------------------------------
(***************************************************************************)
(* StartGetCallStackToFile and fGetCallStackToFile: the walk that lists    *)
(* the functions a selected function reaches, one line each, into a single *)
(* file.  It sweeps and recurses as the disassembler does, but marks a     *)
(* callee as seen before it looks at it and writes the callee's line after *)
(* the recursion has come back.                                            *)
(***************************************************************************)
EXTENDS Debugger

CONSTANTS
  Selections,        \* the ranges the user may select
  gdwMaxCallNumber,  \* 5 .. 30 in the menu
  MaxTries,          \* 10, polls for the analyser's answer
  CreateMayFail      \* whether CreateFileA may fail

ASSUME CallStackConstants ==
  /\ Selections \subseteq Range32
  /\ gdwMaxCallNumber \in Nat
  /\ MaxTries \in Nat \ {0}
  /\ CreateMayFail \in BOOLEAN

VARIABLES
  pc,            \* where the running activation is
  cur,           \* its local variables
  stack,         \* the suspended activations, outermost first
  ret,           \* the value the last activation returned
  gvdwCallStack, \* the callees met so far
  lines          \* the lines of the output file

walk == <<pc, cur, stack, ret>>
vars == <<debugger, walk, gvdwCallStack, lines>>

(* A line "depth-CALL to", and whether the callee was walked, was beyond   *)
(* the maximum depth, or is unknown to the analyser.                       *)
Line == [depth : Nat, to : Addr, note : {"walked", "deep", "failed"}]

Frame == [start : Addr, end : Addr, depth : Nat, ip : Addr, size : Nat,
          dest : Addr, tries : Nat, nextEnd : Addr, probe : Addr]

Activation(start, end, depth) ==
  [start |-> start, end |-> end, depth |-> depth, ip |-> start, size |-> 1,
   dest |-> 0, tries |-> 0, nextEnd |-> 0, probe |-> 0]

Locations == {"create", "enter", "sweep", "post", "query", "trim", "returned",
              "done"}

TypeOK ==
  /\ DebuggerTypeOK
  /\ pc \in Locations
  /\ cur \in Frame
  /\ stack \in Seq(Frame)
  /\ ret \in {0, 2, 3}
  /\ gvdwCallStack \in Seq(Addr)
  /\ lines \in Seq(Line)

Init ==
  /\ DebuggerInit
  /\ pc = "create"
  /\ \E sel \in Selections : cur = Activation(sel.start, sel.end, 0)
  /\ stack = <<>>
  /\ ret = 0
  /\ gvdwCallStack = <<>>
  /\ lines = <<>>

Here == DbgDisasmAt(image, cur.ip)

----------------------------------------------------------------------------

(* StartGetCallStackToFile: without a file nothing is walked.              *)
StartFails ==
  /\ pc = "create"
  /\ CreateMayFail
  /\ pc' = "done"
  /\ ret' = 3
  /\ UNCHANGED <<debugger, cur, stack, gvdwCallStack, lines>>

Start ==
  /\ pc = "create"
  /\ pc' = "enter"
  /\ UNCHANGED <<debugger, cur, stack, ret, gvdwCallStack, lines>>

Return(code) ==
  /\ ret' = code
  /\ IF stack = <<>>
     THEN pc' = "done" /\ UNCHANGED <<cur, stack>>
     ELSE /\ pc' = "returned"
          /\ cur' = stack[Len(stack)]
          /\ stack' = SubSeq(stack, 1, Len(stack) - 1)

TooDeep(f) == f.depth > gdwMaxCallNumber

EnterTooDeep ==
  /\ pc = "enter"
  /\ TooDeep(cur)
  /\ Return(2)
  /\ UNCHANGED <<debugger, gvdwCallStack, lines>>

Enter ==
  /\ pc = "enter"
  /\ ~ TooDeep(cur)
  /\ pc' = "sweep"
  /\ UNCHANGED <<debugger, cur, stack, ret, gvdwCallStack, lines>>

----------------------------------------------------------------------------

Seen(a) == \E i \in DOMAIN gvdwCallStack : gvdwCallStack[i] = a

(* Unlike the disassembler, this walk goes wherever the call leads outside *)
(* the system modules, past the game's code included.                      *)
IsFollowed(i) ==
  /\ i.op = "call"
  /\ FixedCallAddress(i) # 0
  /\ ~ IsAddressInSysDll(FixedCallAddress(i))

Callee(i) == FollowThunk(image, FixedCallAddress(i))

SweepPlain ==
  /\ pc = "sweep"
  /\ cur.ip <= cur.end
  /\ IsFollowed(Here) => Seen(Callee(Here))
  /\ cur' = [cur EXCEPT !.ip = @ + Here.size]
  /\ UNCHANGED <<debugger, pc, stack, ret, gvdwCallStack, lines>>

SweepCall ==
  /\ pc = "sweep"
  /\ cur.ip <= cur.end
  /\ IsFollowed(Here)
  /\ ~ Seen(Callee(Here))
  /\ gvdwCallStack' = Append(gvdwCallStack, Callee(Here))
  /\ cur' = [cur EXCEPT !.dest = Callee(Here), !.size = Here.size, !.tries = 0]
  /\ pc' = "post"
  /\ UNCHANGED <<debugger, stack, ret, lines>>

SweepDone ==
  /\ pc = "sweep"
  /\ cur.end < cur.ip
  /\ Return(0)
  /\ UNCHANGED <<debugger, gvdwCallStack, lines>>

(* Mutant: the line goes to the front of the file.                         *)
WriteLineMutant(note) ==
  /\ lines' = <<[depth |-> cur.depth, to |-> cur.dest, note |-> note]>> \o lines
  /\ cur' = [cur EXCEPT !.ip = @ + cur.size]
  /\ pc' = "sweep"
  /\ UNCHANGED <<debugger, stack, ret, gvdwCallStack>>

WriteLine(note) ==
  /\ lines' = Append(lines, [depth |-> cur.depth, to |-> cur.dest, note |-> note])
  /\ cur' = [cur EXCEPT !.ip = @ + cur.size]
  /\ pc' = "sweep"
  /\ UNCHANGED <<debugger, stack, ret, gvdwCallStack>>

----------------------------------------------------------------------------
(* The analyser and the recursion, as in the disassembler.                 *)

PostAnalysis ==
  /\ pc = "post"
  /\ DbgCmdExec(cur.dest)
  /\ pc' = "query"
  /\ UNCHANGED <<cur, stack, ret, gvdwCallStack, lines>>

QueryKnown ==
  /\ pc = "query"
  /\ \E f \in GetInfo(cur.dest) :
       cur' = [cur EXCEPT !.nextEnd = f.end, !.probe = cur.dest]
  /\ pc' = "trim"
  /\ UNCHANGED <<debugger, stack, ret, gvdwCallStack, lines>>

(* Mutant: the tries are not counted.                                      *)
QueryRetryMutant ==
  /\ pc = "query"
  /\ GetInfo(cur.dest) = {}
  /\ cur.tries + 1 < MaxTries
  /\ pc' = "post"
  /\ UNCHANGED <<debugger, cur, stack, ret, gvdwCallStack, lines>>

QueryRetry ==
  /\ pc = "query"
  /\ GetInfo(cur.dest) = {}
  /\ cur.tries + 1 < MaxTries
  /\ cur' = [cur EXCEPT !.tries = @ + 1]
  /\ pc' = "post"
  /\ UNCHANGED <<debugger, stack, ret, gvdwCallStack, lines>>

(* Mutant: a callee the analyser does not know gets no line.               *)
QueryFailedMutant ==
  /\ pc = "query"
  /\ GetInfo(cur.dest) = {}
  /\ cur.tries + 1 >= MaxTries
  /\ cur' = [cur EXCEPT !.ip = @ + cur.size]
  /\ pc' = "sweep"
  /\ UNCHANGED <<debugger, stack, ret, gvdwCallStack, lines>>

QueryFailed ==
  /\ pc = "query"
  /\ GetInfo(cur.dest) = {}
  /\ cur.tries + 1 >= MaxTries
  /\ WriteLine("failed")

TrimStep ==
  /\ pc = "trim"
  /\ cur.probe <= cur.nextEnd
  /\ DbgDisasmAt(image, cur.probe).op # "int3"
  /\ cur' = [cur EXCEPT !.probe = @ + DbgDisasmAt(image, cur.probe).size]
  /\ UNCHANGED <<debugger, pc, stack, ret, gvdwCallStack, lines>>

Recurse(end) ==
  /\ stack' = Append(stack, cur)
  /\ cur' = Activation(cur.dest, end, cur.depth + 1)
  /\ pc' = "enter"
  /\ UNCHANGED <<debugger, ret, gvdwCallStack, lines>>

TrimAtInt3 ==
  /\ pc = "trim"
  /\ cur.probe <= cur.nextEnd
  /\ DbgDisasmAt(image, cur.probe).op = "int3"
  /\ Recurse(cur.probe - 1)

TrimWhole ==
  /\ pc = "trim"
  /\ cur.nextEnd < cur.probe
  /\ Recurse(cur.nextEnd)

(* Mutant: the return code is not looked at.                               *)
ReturnedMutant == pc = "returned" /\ WriteLine("walked")

Returned ==
  /\ pc = "returned"
  /\ WriteLine(IF ret = 2 THEN "deep" ELSE "walked")

----------------------------------------------------------------------------

Walk ==
  \/ Start \/ StartFails \/ Enter \/ EnterTooDeep
  \/ SweepPlain \/ SweepCall \/ SweepDone
  \/ PostAnalysis \/ QueryKnown \/ QueryRetry \/ QueryFailed
  \/ TrimStep \/ TrimAtInt3 \/ TrimWhole \/ Returned

Terminated == pc = "done" /\ UNCHANGED vars

Next ==
  \/ Walk
  \/ DebuggerNext /\ UNCHANGED <<walk, gvdwCallStack, lines>>
  \/ Terminated

Spec == Init /\ [][Next]_vars /\ WF_vars(Walk)

----------------------------------------------------------------------------
(* Properties.                                                             *)

(* The callees whose line is still to come: one per suspended activation,  *)
(* and that of the running one while it works on a call.                   *)
InProgress ==
  {stack[i].dest : i \in DOMAIN stack} \cup
  (IF pc \in {"post", "query", "trim", "returned"} THEN {cur.dest} ELSE {})

Written == {lines[i].to : i \in DOMAIN lines}

(* No callee is listed twice, by whatever paths it is reached, and even    *)
(* though its line is written only after the recursion into it, during     *)
(* which it may be met again (grcasm.cpp:1048-1059 against 1161).          *)
OneLinePerCallee ==
  \A i, j \in DOMAIN lines : lines[i].to = lines[j].to => i = j

(* Every callee marked as seen has its line or is being worked on, never   *)
(* both: none is forgotten because the mark is set before the work.        *)
SeenAccountedFor ==
  /\ {gvdwCallStack[i] : i \in DOMAIN gvdwCallStack} = InProgress \cup Written
  /\ InProgress \cap Written = {}

(* Each callee that was met is listed once, or will be.                    *)
CalleesAccounted == OneLinePerCallee /\ SeenAccountedFor

(* The lines are a post-order of the call tree: below a line of depth d    *)
(* comes one of depth at least d - 1, and a finished walk of a file that   *)
(* has lines ends at depth 0.  A reader needs this to rebuild the tree.    *)
PostOrder ==
  /\ \A i \in 1 .. Len(lines) - 1 : lines[i + 1].depth + 1 >= lines[i].depth
  /\ pc = "done" /\ lines # <<>> => lines[Len(lines)].depth = 0

(* No line is deeper than the maximum, and only a caller at the maximum    *)
(* depth leaves a callee unwalked for its depth (grcasm.cpp:920, 1132).    *)
DeepOnlyAtMaximum ==
  \A i \in DOMAIN lines :
    /\ lines[i].depth <= gdwMaxCallNumber
    /\ lines[i].note = "deep" <=> lines[i].depth = gdwMaxCallNumber
                                  /\ lines[i].note # "failed"

(* The walk ends although it recurses into recursive functions and the     *)
(* analyser may never answer; or the debuggee has ended first and keeps a  *)
(* sweep where it is (grcasm.cpp:1056, 148).                               *)
EndsUnlessGone == <>(pc = "done" \/ ~ image.alive)

(* Addresses from a up to its first int3 in every registered function that *)
(* holds a: what the walk into a sweeps.                                   *)
SweptFrom(a) ==
  {x \in DOMAIN image.code :
     /\ a <= x
     /\ \A f \in GetInfo(a) : x <= f.end
     /\ \A y \in DOMAIN image.code :
          a <= y /\ y <= x => image.code[y].op # "int3"}

(* A callee reported as walked had every call in it met too: the mark in   *)
(* gvdwCallStack never makes the walk skip what nobody listed.  Stated for *)
(* a debuggee whose code does not change and whose functions are disjoint. *)
WalkedIsClosed ==
  patches = 0 => \A i \in DOMAIN lines : lines[i].note = "walked" =>
    \A x \in SweptFrom(lines[i].to) :
      IsFollowed(image.code[x]) => Seen(Callee(image.code[x]))
=============================================================================
