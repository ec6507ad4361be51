-------------------------- MODULE CallStackProofs ---------------------------
(***************************************************************************)
(* Proofs about the call-stack listing, for every debuggee, selection,     *)
(* depth and number of tries.                                              *)
(***************************************************************************)
EXTENDS CallStack, SequenceTheorems, TLAPS

----------------------------------------------------------------------------
(* Type correctness.  A call is only followed to a nonzero address, which  *)
(* keeps the end computed at an int3 from falling below zero.              *)

DestNonzero ==
  /\ pc \in {"post", "query", "trim"} => cur.dest # 0
  /\ pc = "trim" => cur.probe # 0

TypeInv == TypeOK /\ DestNonzero

LEMMA InstrType ==
  ASSUME NEW m \in Images, NEW a \in Addr
  PROVE  /\ DbgDisasmAt(m, a) \in Instr
         /\ DbgDisasmAt(m, a).e9 => DbgDisasmAt(m, a).constant # 0
<1>1. CASE a \in DOMAIN m.code
  BY <1>1, DebuggerConstants DEF DbgDisasmAt, IsImage
<1>2. CASE a \notin DOMAIN m.code
  BY <1>2 DEF DbgDisasmAt, Undecoded, Zeroed, Instr, Ops, Addr
<1>. QED  BY <1>1, <1>2

LEMMA CalleeType ==
  ASSUME TypeOK, NEW i \in Instr, FixedCallAddress(i) # 0
  PROVE  Callee(i) \in Addr /\ Callee(i) # 0
<1>1. FixedCallAddress(i) \in Addr
  BY DEF FixedCallAddress, Instr, Addr
<1>. DEFINE d == DbgDisasmAt(image, FixedCallAddress(i))
<1>2. d \in Instr /\ (d.e9 => d.constant # 0)
  BY <1>1, InstrType DEF TypeOK, DebuggerTypeOK
<1>3. d.constant \in Addr
  BY <1>2 DEF Instr
<1>. QED  BY <1>1, <1>2, <1>3 DEF Callee, FollowThunk

LEMMA HereType ==
  ASSUME TypeOK
  PROVE  Here \in Instr /\ DbgDisasmAt(image, cur.probe) \in Instr
BY InstrType DEF Here, TypeOK, DebuggerTypeOK, Frame

LEMMA ActivationType ==
  ASSUME NEW s \in Addr, NEW e \in Addr, NEW d \in Nat
  PROVE  Activation(s, e, d) \in Frame
BY DEF Activation, Frame, Addr

LEMMA ReturnType ==
  ASSUME TypeOK, NEW code \in {0, 2, 3}, Return(code)
  PROVE  /\ pc' \in {"done", "returned"}
         /\ cur' \in Frame
         /\ stack' \in Seq(Frame)
         /\ ret' \in {0, 2, 3}
<1>1. cur \in Frame /\ stack \in Seq(Frame)
  BY DEF TypeOK
<1>2. CASE stack = <<>>
  BY <1>1, <1>2 DEF Return
<1>3. CASE stack # <<>>
  BY <1>1, <1>3 DEF Return
<1>. QED  BY <1>2, <1>3

LEMMA WriteType ==
  ASSUME TypeOK, NEW note \in {"walked", "deep", "failed"}, WriteLine(note)
  PROVE  TypeInv'
<1>1. cur \in Frame
  BY DEF TypeOK
<1>2. cur' \in Frame
  BY <1>1 DEF WriteLine, Frame, Addr
<1>3. [depth |-> cur.depth, to |-> cur.dest, note |-> note] \in Line
  BY <1>1 DEF Frame, Line
<1>4. lines' \in Seq(Line)
  BY <1>3, AppendProperties DEF WriteLine, TypeOK
<1>. QED
  BY <1>2, <1>4
  DEF WriteLine, TypeInv, TypeOK, DebuggerTypeOK, DestNonzero, Locations, debugger

LEMMA InitTypeInv == Init => TypeInv
<1>. SUFFICES ASSUME Init PROVE TypeInv
  OBVIOUS
<1>1. DebuggerTypeOK
  BY DebuggerConstants DEF Init, DebuggerInit, DebuggerTypeOK, IsImage
<1>2. PICK sel \in Selections : cur = Activation(sel.start, sel.end, 0)
  BY DEF Init
<1>3. sel.start \in Addr /\ sel.end \in Addr
  BY CallStackConstants DEF Range32
<1>4. cur \in Frame
  BY <1>2, <1>3, ActivationType
<1>. QED
  BY <1>1, <1>4 DEF Init, TypeInv, TypeOK, DestNonzero, Locations

LEMMA StepTypeInv == TypeInv /\ [Next]_vars => TypeInv'
<1>. SUFFICES ASSUME TypeInv, [Next]_vars PROVE TypeInv'
  OBVIOUS
<1>. USE DEF TypeInv
<1>a. /\ cur \in Frame /\ cur.ip \in Nat /\ cur.dest \in Nat
      /\ cur.probe \in Nat /\ cur.nextEnd \in Nat /\ cur.depth \in Nat
      /\ cur.tries \in Nat /\ cur.size \in Nat
  BY DEF TypeOK, Frame, Addr
<1>b. /\ Here \in Instr /\ Here.size \in Nat
      /\ DbgDisasmAt(image, cur.probe) \in Instr
      /\ DbgDisasmAt(image, cur.probe).size \in Nat
  BY HereType DEF Instr
<1>1. CASE Start \/ StartFails \/ Enter
  BY <1>1 DEF Start, StartFails, Enter, TypeOK, DebuggerTypeOK, DestNonzero,
     Locations, debugger
<1>2. CASE EnterTooDeep \/ SweepDone
  BY <1>2, ReturnType DEF EnterTooDeep, SweepDone, TypeOK, DebuggerTypeOK,
     DestNonzero, Locations, debugger
<1>3. CASE SweepPlain
  <2>1. cur' \in Frame
    BY <1>3, <1>a, <1>b DEF SweepPlain, Frame, Addr
  <2>. QED
    BY <1>3, <2>1 DEF SweepPlain, TypeOK, DebuggerTypeOK, DestNonzero, debugger
<1>4. CASE SweepCall
  <2>1. Callee(Here) \in Addr /\ Callee(Here) # 0
    BY <1>4, <1>b, CalleeType DEF SweepCall, IsFollowed
  <2>2. cur' \in Frame /\ cur'.dest # 0
    BY <1>4, <1>a, <1>b, <2>1 DEF SweepCall, Frame, Addr
  <2>3. gvdwCallStack' \in Seq(Addr)
    BY <1>4, <2>1 DEF SweepCall, TypeOK
  <2>. QED
    BY <1>4, <2>2, <2>3
    DEF SweepCall, TypeOK, DebuggerTypeOK, DestNonzero, Locations, debugger
<1>5. CASE PostAnalysis
  BY <1>5, <1>a DEF PostAnalysis, DbgCmdExec, TypeOK, DebuggerTypeOK,
     DestNonzero, Locations, Addr
<1>6. CASE QueryKnown
  <2>1. PICK f \in GetInfo(cur.dest) :
          cur' = [cur EXCEPT !.nextEnd = f.end, !.probe = cur.dest]
    BY <1>6 DEF QueryKnown
  <2>2. f.end \in Addr
    BY DEF GetInfo, TypeOK, DebuggerTypeOK, Range32
  <2>3. cur' \in Frame /\ cur'.dest = cur.dest /\ cur'.probe = cur.dest
    BY <1>a, <2>1, <2>2 DEF Frame, Addr
  <2>. QED
    BY <1>6, <2>3 DEF QueryKnown, TypeOK, DebuggerTypeOK, DestNonzero,
       Locations, debugger
<1>7. CASE QueryRetry
  <2>1. cur' \in Frame /\ cur'.dest = cur.dest
    BY <1>7, <1>a DEF QueryRetry, Frame, Addr
  <2>. QED
    BY <1>7, <2>1 DEF QueryRetry, TypeOK, DebuggerTypeOK, DestNonzero,
       Locations, debugger
<1>8. CASE QueryFailed \/ Returned
  BY <1>8, WriteType DEF QueryFailed, Returned
<1>9. CASE TrimStep
  <2>1. cur' \in Frame /\ cur'.dest = cur.dest /\ cur'.probe # 0
    BY <1>9, <1>a, <1>b DEF TrimStep, DestNonzero, Frame, Addr
  <2>. QED
    BY <1>9, <2>1 DEF TrimStep, TypeOK, DebuggerTypeOK, DestNonzero, debugger
<1>10. ASSUME NEW e \in Addr, Recurse(e) PROVE TypeInv'
  <2>1. cur' \in Frame
    BY <1>10, <1>a, ActivationType DEF Recurse, Addr
  <2>2. stack' \in Seq(Frame)
    BY <1>10, <1>a DEF Recurse, TypeOK
  <2>. QED
    BY <1>10, <2>1, <2>2 DEF Recurse, TypeOK, DebuggerTypeOK, DestNonzero,
       Locations, debugger
<1>11. CASE TrimAtInt3
  <2>1. cur.probe - 1 \in Addr
    BY <1>11, <1>a DEF TrimAtInt3, DestNonzero, Addr
  <2>. QED  BY <1>11, <1>10, <2>1 DEF TrimAtInt3
<1>12. CASE TrimWhole
  BY <1>12, <1>10, <1>a DEF TrimWhole, Addr
<1>13. CASE DebuggerNext /\ UNCHANGED <<walk, gvdwCallStack, lines>>
  <2>1. DebuggerTypeOK'
    BY <1>13, DebuggerConstants
    DEF DebuggerNext, Analyse, Patch, TypeOK, DebuggerTypeOK, IsImage
  <2>. QED  BY <1>13, <2>1 DEF TypeOK, DestNonzero, walk
<1>14. CASE UNCHANGED vars
  BY <1>14 DEF vars, walk, debugger, TypeOK, DebuggerTypeOK, DestNonzero
<1>. QED
  BY <1>1, <1>2, <1>3, <1>4, <1>5, <1>6, <1>7, <1>8, <1>9, <1>11, <1>12,
     <1>13, <1>14
  DEF Next, Walk, Terminated

(* Every variable of the listing keeps its type, in particular the end of  *)
(* a callee cut at an int3 (grcasm.cpp:918-1170, 132-150).                 *)
THEOREM TypeCorrect == Spec => []TypeOK
<1>1. TypeInv => TypeOK
  BY DEF TypeInv
<1>. QED  BY <1>1, InitTypeInv, StepTypeInv, PTL DEF Spec

----------------------------------------------------------------------------
(* Depths.  An activation's depth is its place in the recursion, only the  *)
(* one that is about to leave is beyond the maximum, and a caller resumes  *)
(* with code 2 exactly at the maximum.                                     *)

DepthInv ==
  /\ \A i \in DOMAIN stack :
       stack[i].depth = i - 1 /\ stack[i].depth <= gdwMaxCallNumber
  /\ pc # "done" => cur.depth = Len(stack)
  /\ pc \notin {"create", "enter", "done"} => cur.depth <= gdwMaxCallNumber
  /\ pc = "returned" => (ret = 2 <=> cur.depth = gdwMaxCallNumber)
  /\ pc = "create" => stack = <<>> /\ lines = <<>>

(* The last line is at most one level below the activation that reads on.  *)
LastLineInv ==
  lines # <<>> =>
    lines[Len(lines)].depth <= (IF pc = "done" THEN 0
                                ELSE IF pc = "returned" THEN cur.depth + 1
                                ELSE cur.depth)

LinesInv == DepthInv /\ LastLineInv /\ PostOrder /\ DeepOnlyAtMaximum

LEMMA InitLinesInv == Init => LinesInv
BY CallStackConstants
DEF Init, LinesInv, DepthInv, LastLineInv, PostOrder, DeepOnlyAtMaximum, Activation

LEMMA FrontOfStack ==
  ASSUME TypeOK, stack # <<>>, stack' = SubSeq(stack, 1, Len(stack) - 1)
  PROVE  /\ Len(stack) \in Nat \ {0} /\ Len(stack') = Len(stack) - 1
         /\ DOMAIN stack' = 1 .. Len(stack) - 1
         /\ \A i \in DOMAIN stack' : i \in DOMAIN stack /\ stack'[i] = stack[i]
<1>. DEFINE n == Len(stack) - 1
<1>1. /\ stack \in Seq(Frame) /\ Len(stack) \in Nat \ {0}
      /\ DOMAIN stack = 1 .. Len(stack)
  BY DEF TypeOK
<1>2. n \in Int /\ 1 \in Int /\ \A i \in 1 .. n : stack[i] \in Frame
  BY <1>1
<1>3. /\ SubSeq(stack, 1, n) \in Seq(Frame)
      /\ Len(SubSeq(stack, 1, n)) = IF 1 <= n THEN n - 1 + 1 ELSE 0
      /\ \A i \in 1 .. n - 1 + 1 : SubSeq(stack, 1, n)[i] = stack[1 + i - 1]
  <2>. HIDE DEF n
  <2>. QED  BY <1>2, SubSeqProperties
<1>4. stack' \in Seq(Frame) /\ Len(stack') = n
  BY <1>1, <1>3
<1>5. DOMAIN stack' = 1 .. n
  BY <1>4
<1>6. ASSUME NEW i \in 1 .. n PROVE i \in DOMAIN stack /\ stack'[i] = stack[i]
  BY <1>1, <1>3
<1>. QED  BY <1>1, <1>4, <1>5, <1>6

LEMMA LastLineType ==
  ASSUME TypeOK, lines # <<>>
  PROVE  lines[Len(lines)].depth \in Nat
<1>1. lines[Len(lines)] \in Line
  BY DEF TypeOK
<1>. QED  BY <1>1 DEF Line

(* A return with the code that the depth calls for.                        *)
LEMMA ReturnLines ==
  ASSUME TypeOK, LinesInv, pc \in {"enter", "sweep"}, NEW code \in {0, 2},
         code = 2 <=> cur.depth > gdwMaxCallNumber,
         Return(code), UNCHANGED lines
  PROVE  LinesInv'
<1>. USE CallStackConstants
<1>1. /\ cur \in Frame /\ cur.depth \in Nat /\ stack \in Seq(Frame)
      /\ lines \in Seq(Line)
      /\ cur.depth = Len(stack)
  BY DEF TypeOK, Frame, LinesInv, DepthInv
<1>2. lines # <<>> => lines[Len(lines)].depth \in Nat
                      /\ lines[Len(lines)].depth <= cur.depth
  BY <1>1, LastLineType DEF LinesInv, LastLineInv
<1>3. CASE stack = <<>>
  <2>1. pc' = "done" /\ UNCHANGED <<cur, stack, lines>> /\ cur.depth = 0
    BY <1>1, <1>3 DEF Return
  <2>2. lines # <<>> => lines[Len(lines)].depth = 0
    BY <1>2, <2>1
  <2>. QED
    BY <2>1, <2>2
    DEF LinesInv, DepthInv, LastLineInv, PostOrder, DeepOnlyAtMaximum
<1>4. CASE stack # <<>>
  <2>. DEFINE top == Len(stack)
  <2>1. /\ top \in DOMAIN stack /\ top \in Nat \ {0}
        /\ stack[top] \in Frame
        /\ stack[top].depth = top - 1 /\ stack[top].depth <= gdwMaxCallNumber
    BY <1>1, <1>4 DEF LinesInv, DepthInv
  <2>2. /\ pc' = "returned" /\ ret' = code /\ cur' = stack[top]
        /\ stack' = SubSeq(stack, 1, top - 1)
    BY <1>4 DEF Return
  <2>3. /\ Len(stack') = top - 1
        /\ \A i \in DOMAIN stack' : i \in DOMAIN stack /\ stack'[i] = stack[i]
    BY <1>4, <2>2, FrontOfStack
  <2>4. cur'.depth = gdwMaxCallNumber <=> code = 2
    <3>1. pc = "sweep" => cur.depth <= gdwMaxCallNumber
      BY DEF LinesInv, DepthInv
    <3>. QED  BY <1>1, <2>1, <2>2, <3>1
  <2>5. DepthInv'
    BY <2>1, <2>2, <2>3, <2>4 DEF LinesInv, DepthInv
  <2>6. LastLineInv'
    BY <1>1, <1>2, <2>1, <2>2 DEF LastLineInv
  <2>. QED
    BY <2>2, <2>5, <2>6 DEF LinesInv, PostOrder, DeepOnlyAtMaximum
<1>. QED  BY <1>3, <1>4

(* A line at the depth of the activation that writes it.                   *)
LEMMA WriteLines ==
  ASSUME TypeOK, LinesInv, pc \notin {"create", "enter", "done"},
         NEW note \in {"walked", "deep", "failed"}, WriteLine(note),
         note = "deep" <=> cur.depth = gdwMaxCallNumber /\ note # "failed"
  PROVE  LinesInv'
<1>. DEFINE line == [depth |-> cur.depth, to |-> cur.dest, note |-> note]
<1>1. /\ cur \in Frame /\ cur.depth \in Nat /\ lines \in Seq(Line)
      /\ line \in Line /\ cur.depth <= gdwMaxCallNumber
  BY DEF TypeOK, Frame, Line, LinesInv, DepthInv
<1>2. /\ lines' = Append(lines, line) /\ pc' = "sweep" /\ UNCHANGED stack
      /\ cur'.depth = cur.depth
  BY <1>1 DEF WriteLine, Frame
<1>3. /\ Len(lines') = Len(lines) + 1 /\ lines' # <<>>
      /\ lines'[Len(lines')] = line
      /\ \A i \in 1 .. Len(lines) : lines'[i] = lines[i] /\ lines[i] \in Line
  BY <1>1, <1>2
<1>4. DepthInv'
  BY <1>1, <1>2 DEF LinesInv, DepthInv
<1>5. LastLineInv'
  BY <1>1, <1>2, <1>3 DEF LastLineInv
<1>6. PostOrder'
  <2>1. ASSUME NEW i \in 1 .. Len(lines') - 1
        PROVE  lines'[i + 1].depth + 1 >= lines'[i].depth
    <3>1. CASE i < Len(lines)
      BY <1>1, <1>3, <3>1 DEF LinesInv, PostOrder
    <3>2. CASE i = Len(lines)
      <4>1. lines # <<>> /\ lines[i].depth <= cur.depth + 1 /\ lines[i].depth \in Nat
        BY <1>1, <1>3, <2>1, <3>2 DEF LinesInv, LastLineInv, Line
      <4>. QED  BY <1>1, <1>3, <2>1, <3>2, <4>1
    <3>. QED  BY <1>1, <1>3, <2>1, <3>1, <3>2
  <2>. QED  BY <1>2, <2>1 DEF PostOrder
<1>7. DeepOnlyAtMaximum'
  <2>1. ASSUME NEW i \in DOMAIN lines'
        PROVE  /\ lines'[i].depth <= gdwMaxCallNumber
               /\ lines'[i].note = "deep" <=>
                    lines'[i].depth = gdwMaxCallNumber /\ lines'[i].note # "failed"
    <3>1. CASE i \in DOMAIN lines
      BY <1>1, <1>3, <3>1 DEF LinesInv, DeepOnlyAtMaximum
    <3>2. CASE i = Len(lines')
      BY <1>1, <1>3, <3>2
    <3>. QED  BY <1>1, <1>2, <1>3, <2>1, <3>1, <3>2
  <2>. QED  BY <2>1 DEF DeepOnlyAtMaximum
<1>. QED  BY <1>4, <1>5, <1>6, <1>7 DEF LinesInv

LEMMA StepLinesInv == TypeInv /\ LinesInv /\ [Next]_vars => LinesInv'
<1>. SUFFICES ASSUME TypeInv, LinesInv, [Next]_vars PROVE LinesInv'
  OBVIOUS
<1>. USE CallStackConstants
<1>a. /\ TypeOK /\ cur \in Frame /\ cur.depth \in Nat /\ stack \in Seq(Frame)
      /\ lines \in Seq(Line)
  BY DEF TypeInv, TypeOK, Frame
<1>1. CASE Start \/ StartFails
  BY <1>1, <1>a
  DEF Start, StartFails, LinesInv, DepthInv, LastLineInv, PostOrder,
      DeepOnlyAtMaximum
<1>2. CASE Enter
  BY <1>2, <1>a
  DEF Enter, TooDeep, LinesInv, DepthInv, LastLineInv, PostOrder,
      DeepOnlyAtMaximum
<1>3. CASE EnterTooDeep
  BY <1>3, <1>a, ReturnLines DEF EnterTooDeep, TooDeep
<1>4. CASE SweepDone
  <2>1. ~ (cur.depth > gdwMaxCallNumber)
    BY <1>4, <1>a DEF SweepDone, LinesInv, DepthInv
  <2>. QED  BY <1>4, <1>a, <2>1, ReturnLines DEF SweepDone
<1>5. CASE SweepPlain \/ TrimStep \/ QueryRetry \/ QueryKnown \/ SweepCall
           \/ PostAnalysis
  <2>1. /\ cur'.depth = cur.depth /\ UNCHANGED <<stack, ret, lines>>
        /\ pc \notin {"create", "enter", "done", "returned"}
        /\ pc' \notin {"create", "enter", "done", "returned"}
    BY <1>5, <1>a
    DEF SweepPlain, TrimStep, QueryRetry, QueryKnown, SweepCall, PostAnalysis,
        DbgCmdExec, Frame
  <2>. QED
    BY <2>1 DEF LinesInv, DepthInv, LastLineInv, PostOrder, DeepOnlyAtMaximum
<1>6. CASE QueryFailed
  BY <1>6, <1>a, WriteLines DEF QueryFailed
<1>7. CASE Returned
  <2>1. ret = 2 <=> cur.depth = gdwMaxCallNumber
    BY <1>7 DEF Returned, LinesInv, DepthInv
  <2>. DEFINE note == IF ret = 2 THEN "deep" ELSE "walked"
  <2>2. note \in {"walked", "deep", "failed"} /\ WriteLine(note)
        /\ (note = "deep" <=> cur.depth = gdwMaxCallNumber /\ note # "failed")
    BY <1>7, <2>1 DEF Returned
  <2>3. pc \notin {"create", "enter", "done"}
    BY <1>7 DEF Returned
  <2>. QED  BY <1>a, <2>2, <2>3, WriteLines
<1>8. ASSUME NEW e, Recurse(e), pc = "trim" PROVE LinesInv'
  <2>1. /\ stack' = Append(stack, cur) /\ pc' = "enter" /\ UNCHANGED lines
        /\ cur'.depth = cur.depth + 1
    BY <1>8 DEF Recurse, Activation
  <2>2. cur.depth = Len(stack) /\ cur.depth <= gdwMaxCallNumber
    BY <1>8 DEF LinesInv, DepthInv
  <2>3. DepthInv'
    BY <1>a, <2>1, <2>2 DEF LinesInv, DepthInv
  <2>4. LastLineInv'
    <3>1. lines # <<>> => lines[Len(lines)].depth \in Nat
      BY <1>a, LastLineType
    <3>. QED  BY <1>a, <1>8, <2>1, <3>1 DEF LinesInv, LastLineInv
  <2>. QED  BY <2>1, <2>3, <2>4 DEF LinesInv, PostOrder, DeepOnlyAtMaximum
<1>9. CASE TrimAtInt3 \/ TrimWhole
  BY <1>9, <1>8 DEF TrimAtInt3, TrimWhole
<1>10. CASE UNCHANGED <<walk, gvdwCallStack, lines>>
  BY <1>10
  DEF walk, LinesInv, DepthInv, LastLineInv, PostOrder, DeepOnlyAtMaximum
<1>. QED
  BY <1>1, <1>2, <1>3, <1>4, <1>5, <1>6, <1>7, <1>9, <1>10
  DEF Next, Walk, Terminated, vars

(* The lines are a post-order of the call tree, from which a reader can    *)
(* rebuild it (grcasm.cpp:1112-1167).                                      *)
THEOREM LinesPostOrder == Spec => []PostOrder
<1>1. LinesInv => PostOrder
  BY DEF LinesInv
<1>. QED
  BY <1>1, InitTypeInv, StepTypeInv, InitLinesInv, StepLinesInv, PTL DEF Spec

(* No line is deeper than the maximum, and exactly the callers at the      *)
(* maximum leave callees unwalked for their depth (grcasm.cpp:920, 1132).  *)
THEOREM DeepExactly == Spec => []DeepOnlyAtMaximum
<1>1. LinesInv => DeepOnlyAtMaximum
  BY DEF LinesInv
<1>. QED
  BY <1>1, InitTypeInv, StepTypeInv, InitLinesInv, StepLinesInv, PTL DEF Spec

----------------------------------------------------------------------------
(* Callees.  The lines still to come are for different callees: those of   *)
(* the suspended activations, and that of the running one.                 *)

Working == {"post", "query", "trim", "returned"}

ApartInv ==
  /\ \A i, j \in DOMAIN stack : stack[i].dest = stack[j].dest => i = j
  /\ pc \in Working => \A i \in DOMAIN stack : stack[i].dest # cur.dest

CalleesInv == ApartInv /\ CalleesAccounted

Suspended == {stack[i].dest : i \in DOMAIN stack}
Marked == {gvdwCallStack[i] : i \in DOMAIN gvdwCallStack}

LEMMA InProgressIs ==
  InProgress = IF pc \in Working THEN Suspended \cup {cur.dest} ELSE Suspended
BY DEF InProgress, Suspended, Working

LEMMA InitCalleesInv == Init => CalleesInv
BY DEF Init, CalleesInv, ApartInv, CalleesAccounted, OneLinePerCallee,
   SeenAccountedFor, InProgress, Written, Working

(* A step that moves nothing between the callees met, those in progress    *)
(* and those written.                                                      *)
LEMMA SameCallees ==
  ASSUME CalleesInv, UNCHANGED <<gvdwCallStack, lines>>, ApartInv',
         InProgress' = InProgress
  PROVE  CalleesInv'
BY DEF CalleesInv, CalleesAccounted, OneLinePerCallee, SeenAccountedFor, Written

LEMMA ReturnCallees ==
  ASSUME TypeOK, CalleesInv, pc \in {"enter", "sweep"}, NEW code, Return(code),
         UNCHANGED <<gvdwCallStack, lines>>
  PROVE  CalleesInv'
<1>1. CASE stack = <<>>
  <2>1. pc' = "done" /\ stack' = stack
    BY <1>1 DEF Return
  <2>2. ApartInv' /\ InProgress' = InProgress
    BY <2>1 DEF CalleesInv, ApartInv, InProgress, Working
  <2>. QED  BY <2>2, SameCallees
<1>2. CASE stack # <<>>
  <2>1. /\ pc' = "returned" /\ cur' = stack[Len(stack)]
        /\ stack' = SubSeq(stack, 1, Len(stack) - 1)
    BY <1>2 DEF Return
  <2>2. /\ Len(stack) \in Nat \ {0} /\ DOMAIN stack' = 1 .. Len(stack) - 1
        /\ \A i \in DOMAIN stack' : i \in DOMAIN stack /\ stack'[i] = stack[i]
        /\ DOMAIN stack = 1 .. Len(stack)
    BY <1>2, <2>1, FrontOfStack DEF TypeOK
  <2>3. ApartInv'
    BY <2>1, <2>2 DEF CalleesInv, ApartInv
  <2>4. Suspended = Suspended' \cup {cur'.dest}
    <3>. DEFINE n == Len(stack)
                d(i) == stack[i].dest
    <3>1. DOMAIN stack = 1 .. n /\ DOMAIN stack' = 1 .. n - 1 /\ n \in Nat \ {0}
      BY <2>2
    <3>2. 1 .. n = (1 .. n - 1) \cup {n}
      BY <3>1
    <3>3. Suspended = {d(i) : i \in 1 .. n}
      BY <3>1 DEF Suspended
    <3>4. Suspended' = {d(i) : i \in 1 .. n - 1}
      BY <2>2, <3>1 DEF Suspended
    <3>5. cur'.dest = d(n)
      BY <2>1
    <3>. HIDE DEF d, n
    <3>. QED  BY <3>2, <3>3, <3>4, <3>5
  <2>5. InProgress' = InProgress
    BY <2>1, <2>4 DEF InProgress, Suspended
  <2>. QED  BY <2>3, <2>5, SameCallees
<1>. QED  BY <1>1, <1>2

(* The line of the callee in work is its first, and it is in work no more. *)
LEMMA WriteCallees ==
  ASSUME TypeOK, CalleesInv, pc \in Working, NEW note, WriteLine(note)
  PROVE  CalleesInv'
<1>. DEFINE line == [depth |-> cur.depth, to |-> cur.dest, note |-> note]
<1>1. /\ lines' = Append(lines, line) /\ pc' = "sweep"
      /\ UNCHANGED <<stack, gvdwCallStack>> /\ line.to = cur.dest
  BY DEF WriteLine
<1>2. /\ DOMAIN lines = 1 .. Len(lines) /\ DOMAIN lines' = 1 .. Len(lines) + 1
      /\ Len(lines) \in Nat
      /\ \A i \in 1 .. Len(lines) : lines'[i] = lines[i]
      /\ lines'[Len(lines) + 1] = line
  BY <1>1 DEF TypeOK
<1>3. Written' = Written \cup {cur.dest}
  BY <1>1, <1>2 DEF Written
<1>4. InProgress = Suspended \cup {cur.dest} /\ InProgress' = Suspended
      /\ cur.dest \notin Suspended /\ cur.dest \notin Written
  BY <1>1 DEF InProgress, Suspended, Working, CalleesInv, ApartInv,
     CalleesAccounted, SeenAccountedFor
<1>5. SeenAccountedFor'
  BY <1>1, <1>3, <1>4 DEF SeenAccountedFor, CalleesInv, CalleesAccounted
<1>6. OneLinePerCallee'
  BY <1>1, <1>2, <1>4 DEF OneLinePerCallee, Written, CalleesInv, CalleesAccounted
<1>7. ApartInv'
  BY <1>1 DEF ApartInv, CalleesInv, Working
<1>. QED  BY <1>5, <1>6, <1>7 DEF CalleesInv, CalleesAccounted

LEMMA StepCalleesInv == TypeInv /\ CalleesInv /\ [Next]_vars => CalleesInv'
<1>. SUFFICES ASSUME TypeInv, CalleesInv, [Next]_vars PROVE CalleesInv'
  OBVIOUS
<1>a. TypeOK /\ cur \in Frame /\ stack \in Seq(Frame)
  BY DEF TypeInv, TypeOK
<1>1. CASE Start \/ StartFails \/ Enter \/ SweepPlain
  <2>1. ApartInv' /\ InProgress' = InProgress
    BY <1>1 DEF Start, StartFails, Enter, SweepPlain, CalleesInv, ApartInv,
       InProgress, Working
  <2>. QED
    BY <1>1, <2>1, SameCallees DEF Start, StartFails, Enter, SweepPlain
<1>2. CASE EnterTooDeep \/ SweepDone
  BY <1>2, <1>a, ReturnCallees DEF EnterTooDeep, SweepDone
<1>3. CASE SweepCall
  <2>. DEFINE a == Callee(Here)
  <2>1. /\ pc = "sweep" /\ pc' = "post" /\ cur'.dest = a
        /\ gvdwCallStack' = Append(gvdwCallStack, a)
        /\ UNCHANGED <<stack, lines>>
    BY <1>3, <1>a DEF SweepCall, Frame
  <2>2. a \notin Marked
    BY <1>3 DEF SweepCall, Seen, Marked
  <2>3. Marked' = Marked \cup {a}
    <3>1. gvdwCallStack \in Seq(Addr)
      BY <1>a DEF TypeOK
    <3>2. /\ DOMAIN gvdwCallStack = 1 .. Len(gvdwCallStack)
          /\ DOMAIN gvdwCallStack' = 1 .. Len(gvdwCallStack) + 1
          /\ Len(gvdwCallStack) \in Nat
          /\ \A i \in DOMAIN gvdwCallStack : gvdwCallStack'[i] = gvdwCallStack[i]
          /\ gvdwCallStack'[Len(gvdwCallStack) + 1] = a
      BY <2>1, <3>1
    <3>. QED  BY <3>2 DEF Marked
  <2>4. /\ InProgress = Suspended /\ InProgress' = Suspended \cup {a}
        /\ Written' = Written
    BY <2>1 DEF InProgress, Suspended, Written
  <2>5. Marked = Suspended \cup Written /\ Suspended \cap Written = {}
    BY <2>4 DEF CalleesInv, CalleesAccounted, SeenAccountedFor, Marked
  <2>6. SeenAccountedFor'
    BY <2>2, <2>3, <2>4, <2>5 DEF SeenAccountedFor, Marked
  <2>7. ApartInv'
    BY <2>1, <2>2, <2>5 DEF ApartInv, CalleesInv, Suspended
  <2>. QED
    BY <2>1, <2>6, <2>7 DEF CalleesInv, CalleesAccounted, OneLinePerCallee
<1>4. CASE PostAnalysis \/ QueryKnown \/ QueryRetry \/ TrimStep
  <2>1. /\ pc \in Working /\ pc' \in Working /\ cur'.dest = cur.dest
        /\ UNCHANGED <<stack, gvdwCallStack, lines>>
    BY <1>4, <1>a DEF PostAnalysis, DbgCmdExec, QueryKnown, QueryRetry, TrimStep,
       Working, Frame
  <2>2. ApartInv' /\ InProgress' = InProgress
    BY <2>1 DEF CalleesInv, ApartInv, InProgress, Working
  <2>. QED  BY <2>1, <2>2, SameCallees
<1>5. CASE QueryFailed \/ Returned
  BY <1>5, <1>a, WriteCallees DEF QueryFailed, Returned, Working
<1>6. ASSUME NEW e, Recurse(e), pc = "trim" PROVE CalleesInv'
  <2>1. /\ stack' = Append(stack, cur) /\ pc' = "enter"
        /\ UNCHANGED <<gvdwCallStack, lines>>
    BY <1>6 DEF Recurse
  <2>2. /\ DOMAIN stack = 1 .. Len(stack) /\ DOMAIN stack' = 1 .. Len(stack) + 1
        /\ Len(stack) \in Nat
        /\ \A i \in DOMAIN stack : stack'[i] = stack[i]
        /\ stack'[Len(stack) + 1] = cur
    BY <1>a, <2>1
  <2>3. ApartInv'
    BY <1>6, <2>1, <2>2 DEF ApartInv, CalleesInv, Working
  <2>4. Suspended' = Suspended \cup {cur.dest}
    BY <2>2 DEF Suspended
  <2>5. InProgress' = InProgress
    BY <1>6, <2>1, <2>4 DEF InProgress, Suspended
  <2>. QED  BY <2>1, <2>3, <2>5, SameCallees
<1>7. CASE TrimAtInt3 \/ TrimWhole
  BY <1>7, <1>6 DEF TrimAtInt3, TrimWhole
<1>8. CASE UNCHANGED <<walk, gvdwCallStack, lines>>
  <2>1. ApartInv' /\ InProgress' = InProgress
    BY <1>8 DEF walk, CalleesInv, ApartInv, InProgress
  <2>. QED  BY <1>8, <2>1, SameCallees
<1>. QED
  BY <1>1, <1>2, <1>3, <1>4, <1>5, <1>7, <1>8 DEF Next, Walk, Terminated, vars

(* Every callee that was met has its one line or is still being worked on, *)
(* never both, by whatever paths it is met again (grcasm.cpp:1047-1161).   *)
THEOREM CalleesListed == Spec => []CalleesAccounted
<1>1. CalleesInv => CalleesAccounted
  BY DEF CalleesInv
<1>. QED
  BY <1>1, InitTypeInv, StepTypeInv, InitCalleesInv, StepCalleesInv, PTL DEF Spec

----------------------------------------------------------------------------
(* Walked callees.  While the code stands still, an activation has met the *)
(* calls behind its place in the sweep, and its end is not before anything *)
(* the walk into its function has to sweep.                                *)

(* The instructions that are no call to follow, or one that has been met.  *)
MetCalls ==
  {x \in DOMAIN image.code :
     IsFollowed(image.code[x]) => Seen(Callee(image.code[x]))}

Met(s, n) == \A x \in DOMAIN image.code : s <= x /\ x < n => x \in MetCalls

Sweeps == [a \in Addr |-> SweptFrom(a)]

(* Everything that is swept from s lies before or at the end.              *)
Reaches(s, end) == \A x \in Sweeps[s] : x <= end

Closed(a) == Sweeps[a] \subseteq MetCalls

(* A suspended activation, or one that works on a call, has met this call  *)
(* as well.                                                                *)
PlacesMet ==
  /\ \A i \in DOMAIN stack : Met(stack[i].start, stack[i].ip + stack[i].size)
  /\ pc \in Working => Met(cur.start, cur.ip + cur.size)
  /\ pc \in {"enter", "sweep"} => Met(cur.start, cur.ip)

(* What was selected has the end that was selected; what was called, one   *)
(* that reaches far enough.                                                *)
EndsReach ==
  /\ \A i \in DOMAIN stack : i > 1 => Reaches(stack[i].start, stack[i].end)
  /\ pc \notin {"create", "done"} /\ stack # <<>> => Reaches(cur.start, cur.end)
  /\ pc = "trim" => cur.dest <= cur.probe /\ Reaches(cur.dest, cur.nextEnd)

WalkedClosed ==
  /\ pc = "returned" /\ ret = 0 => Closed(cur.dest)
  /\ \A i \in DOMAIN lines : lines[i].note = "walked" => Closed(lines[i].to)

LinkInv ==
  /\ \A i \in 1 .. Len(stack) - 1 : stack[i + 1].start = stack[i].dest
  /\ pc \notin {"create", "done"} /\ stack # <<>> =>
       cur.start = stack[Len(stack)].dest
  /\ pc = "create" => stack = <<>>
  /\ pc \in {"create", "enter"} => cur.ip = cur.start
  /\ pc = "returned" => ret \in {0, 2}

WalkedInv ==
  /\ LinkInv
  /\ patches = 0 => PlacesMet /\ EndsReach /\ WalkedClosed

LEMMA NextLinkInv ==
  ASSUME TypeOK, LinkInv, [Next]_vars
  PROVE  LinkInv'
<1>1. /\ stack \in Seq(Frame) /\ Len(stack) \in Nat
      /\ DOMAIN stack = 1 .. Len(stack)
      /\ cur \in Frame
  BY DEF TypeOK
<1>2. ASSUME NEW code \in {0, 2}, Return(code), pc \in {"enter", "sweep"}
      PROVE LinkInv'
  <2>1. CASE stack = <<>>
    BY <1>2, <2>1 DEF Return, LinkInv
  <2>2. CASE stack # <<>>
    <3>1. /\ pc' = "returned" /\ ret' = code /\ cur' = stack[Len(stack)]
          /\ stack' = SubSeq(stack, 1, Len(stack) - 1)
      BY <1>2, <2>2 DEF Return
    <3>2. /\ Len(stack) \in Nat \ {0} /\ Len(stack') = Len(stack) - 1
          /\ \A i \in 1 .. Len(stack) - 1 : stack'[i] = stack[i]
      BY <1>1, <2>2, <3>1, FrontOfStack
    <3>3. stack' # <<>> => cur'.start = stack'[Len(stack')].dest
      <4>. SUFFICES ASSUME Len(stack') \in Nat \ {0}
                    PROVE  cur'.start = stack'[Len(stack')].dest
        BY <1>1, <3>1, <3>2, EmptySeq
      <4>1. Len(stack') \in 1 .. Len(stack) - 1
        BY <3>2
      <4>. QED  BY <3>1, <3>2, <4>1 DEF LinkInv
    <3>. QED  BY <3>1, <3>2, <3>3 DEF LinkInv
  <2>. QED  BY <2>1, <2>2
<1>3. CASE EnterTooDeep \/ SweepDone
  BY <1>2, <1>3 DEF EnterTooDeep, SweepDone
<1>4. CASE Start \/ StartFails \/ Enter
  BY <1>4 DEF Start, StartFails, Enter, LinkInv
<1>5. ASSUME UNCHANGED stack, cur'.start = cur.start,
             pc \notin {"create", "done"}, pc' \notin {"create", "enter", "returned"}
      PROVE  LinkInv'
  BY <1>5 DEF LinkInv
<1>6. CASE SweepPlain \/ SweepCall \/ PostAnalysis \/ QueryKnown \/ QueryRetry
           \/ QueryFailed \/ TrimStep \/ Returned
  BY <1>1, <1>5, <1>6 DEF SweepPlain, SweepCall, PostAnalysis, QueryKnown,
     QueryRetry, QueryFailed, TrimStep, Returned, WriteLine, Frame
<1>7. ASSUME NEW e, Recurse(e), pc = "trim" PROVE LinkInv'
  <2>1. /\ stack' = Append(stack, cur) /\ pc' = "enter"
        /\ cur'.start = cur.dest /\ cur'.ip = cur.dest
    BY <1>7 DEF Recurse, Activation
  <2>2. /\ Len(stack') = Len(stack) + 1 /\ stack'[Len(stack) + 1] = cur
        /\ \A i \in 1 .. Len(stack) : stack'[i] = stack[i]
    BY <1>1, <2>1
  <2>3. stack # <<>> => cur.start = stack[Len(stack)].dest
    BY <1>7 DEF LinkInv
  <2>4. ASSUME NEW i \in 1 .. Len(stack') - 1
        PROVE  stack'[i + 1].start = stack'[i].dest
    <3>1. CASE i = Len(stack)
      BY <1>1, <2>2, <2>3, <3>1
    <3>2. CASE i # Len(stack)
      <4>1. i \in 1 .. Len(stack) - 1 /\ i + 1 \in 1 .. Len(stack)
        BY <1>1, <2>2, <3>2
      <4>. QED  BY <2>2, <4>1 DEF LinkInv
    <3>. QED  BY <3>1, <3>2
  <2>. QED  BY <2>1, <2>2, <2>4 DEF LinkInv
<1>8. CASE TrimAtInt3 \/ TrimWhole
  BY <1>7, <1>8 DEF TrimAtInt3, TrimWhole
<1>9. CASE UNCHANGED walk
  BY <1>9 DEF LinkInv, walk
<1>. QED
  BY <1>3, <1>4, <1>6, <1>8, <1>9 DEF Next, Walk, Terminated, vars

(* While the code stands still, more functions get known and more callees  *)
(* met.                                                                    *)
LEMMA Standing ==
  ASSUME TypeOK, [Next]_vars, patches' = 0
  PROVE  /\ patches = 0 /\ image' = image /\ known \subseteq known'
         /\ MetCalls \subseteq MetCalls'
         /\ \A a \in Addr : Sweeps'[a] \subseteq Sweeps[a]
<1>1. /\ patches = 0 /\ image' = image /\ known \subseteq known'
  <2>1. patches \in Nat
    BY DEF TypeOK, DebuggerTypeOK
  <2>2. CASE DebuggerNext
    BY <2>1, <2>2 DEF DebuggerNext, Analyse, Patch
  <2>3. CASE PostAnalysis
    BY <2>3 DEF PostAnalysis, DbgCmdExec
  <2>4. CASE UNCHANGED debugger
    BY <2>4 DEF debugger
  <2>. QED
  BY <2>2, <2>3, <2>4
  DEF Next, Walk, Terminated, Start, StartFails, Enter, EnterTooDeep, SweepPlain,
      SweepCall, SweepDone, QueryKnown, QueryRetry, QueryFailed, TrimStep,
      TrimAtInt3, TrimWhole, Recurse, Returned, WriteLine, vars
<1>2. \A a : Seen(a) => Seen(a)'
  <2>1. CASE SweepCall
    BY <2>1 DEF SweepCall, Seen, TypeOK
  <2>2. SweepCall \/ UNCHANGED gvdwCallStack
    BY DEF Next, Walk, Terminated, Start, StartFails, Enter, EnterTooDeep,
       SweepPlain, SweepDone, PostAnalysis, QueryKnown, QueryRetry, QueryFailed,
       TrimStep, TrimAtInt3, TrimWhole, Recurse, Returned, WriteLine, vars
  <2>. QED  BY <2>1, <2>2 DEF Seen
<1>3. MetCalls \subseteq MetCalls'
  BY <1>1, <1>2 DEF MetCalls, Callee, Seen
<1>4. ASSUME NEW a \in Addr PROVE Sweeps'[a] \subseteq Sweeps[a]
  <2>1. Sweeps[a] = SweptFrom(a) /\ Sweeps'[a] = SweptFrom(a)'
    BY DEF Sweeps
  <2>2. SweptFrom(a)' \subseteq SweptFrom(a)
    BY <1>1 DEF SweptFrom, GetInfo
  <2>. QED  BY <2>1, <2>2
<1>. QED  BY <1>1, <1>3, <1>4

(* Before the next instruction lie those before this one, and this one.    *)
LEMMA NothingBetween ==
  ASSUME TypeOK, InstructionsApart(image), NEW x \in DOMAIN image.code,
         x < cur.ip + Here.size
  PROVE  x < cur.ip \/ (x = cur.ip /\ Here = image.code[x])
<1>1. x \in Nat /\ cur.ip \in Nat
  BY DEF InstructionsApart, TypeOK, Frame, Addr
<1>2. CASE cur.ip \in DOMAIN image.code
  <2>1. Here = image.code[cur.ip] /\ Here.size \in Nat
    BY <1>2, HereType DEF Here, DbgDisasmAt, Instr
  <2>2. ~ (cur.ip < x)
    <3>. SUFFICES ASSUME cur.ip < x PROVE FALSE
      OBVIOUS
    <3>1. cur.ip + Here.size <= x
      BY <1>2, <2>1 DEF InstructionsApart
    <3>. QED  BY <1>1, <2>1, <3>1
  <2>. QED  BY <1>1, <2>1, <2>2
<1>3. CASE cur.ip \notin DOMAIN image.code
  <2>1. Here.size \in {0, 1}
    BY <1>3 DEF Here, DbgDisasmAt, Undecoded, Zeroed
  <2>. QED  BY <1>1, <1>3, <2>1
<1>. QED  BY <1>2, <1>3

(* A return from the callee, whether it was walked (0) or too deep (2).    *)
LEMMA ReturnWalked ==
  ASSUME TypeOK, LinkInv, PlacesMet, EndsReach, WalkedClosed,
         [Next]_vars, patches' = 0,
         pc \in {"enter", "sweep"}, UNCHANGED lines,
         NEW code \in {0, 2}, Return(code),
         code = 0 /\ stack # <<>> => Closed(cur.start)
  PROVE  PlacesMet' /\ EndsReach' /\ WalkedClosed'
<1>1. /\ image' = image /\ MetCalls \subseteq MetCalls'
      /\ \A a \in Addr : Sweeps'[a] \subseteq Sweeps[a]
  BY Standing
<1>2. /\ stack \in Seq(Frame) /\ Len(stack) \in Nat
      /\ DOMAIN stack = 1 .. Len(stack)
  BY DEF TypeOK
<1>6. ASSUME NEW i \in DOMAIN stack
      PROVE  stack[i].start \in Addr /\ stack[i].dest \in Addr
  <2>1. stack[i] \in Frame
    BY <1>2
  <2>. QED  BY <2>1 DEF Frame
<1>7. ASSUME NEW i \in DOMAIN lines PROVE lines[i].to \in Addr
  <2>1. lines[i] \in Line
    BY DEF TypeOK
  <2>. QED  BY <2>1 DEF Line
<1>3. \A i \in DOMAIN lines' : lines'[i].note = "walked" => Closed(lines[i].to)'
  BY <1>1, <1>7 DEF WalkedClosed, Closed
<1>4. CASE stack = <<>>
  BY <1>1, <1>3, <1>4 DEF Return, PlacesMet, EndsReach, WalkedClosed, Working, Closed
<1>5. CASE stack # <<>>
  <2>. DEFINE f == stack[Len(stack)]
  <2>1. /\ pc' = "returned" /\ ret' = code /\ cur' = f
        /\ stack' = SubSeq(stack, 1, Len(stack) - 1)
    BY <1>5 DEF Return
  <2>2. /\ Len(stack) \in Nat \ {0} /\ Len(stack') = Len(stack) - 1
        /\ \A i \in 1 .. Len(stack) - 1 : stack'[i] = stack[i]
        /\ DOMAIN stack' = 1 .. Len(stack) - 1
    BY <1>2, <1>5, <2>1, FrontOfStack
  <2>3. f.start \in Addr /\ f.dest \in Addr
    <3>1. Len(stack) \in DOMAIN stack
      BY <1>2, <2>2
    <3>. QED  BY <1>6, <3>1
  <2>4. PlacesMet'
    <3>1. \A i \in DOMAIN stack' : stack'[i] = stack[i] /\ i \in DOMAIN stack
      BY <1>2, <2>2
    <3>2. Len(stack) \in DOMAIN stack
      BY <1>2, <2>2
    <3>. QED  BY <1>1, <2>1, <3>1, <3>2 DEF PlacesMet, Met, Working
  <2>5. EndsReach'
    <3>1. \A i \in DOMAIN stack' :
            stack'[i] = stack[i] /\ i \in DOMAIN stack /\ stack[i].start \in Addr
      BY <1>6, <1>2, <2>2
    <3>2. stack' # <<>> => Len(stack) \in DOMAIN stack /\ Len(stack) > 1
      BY <1>2, <2>1, <2>2
    <3>. QED  BY <1>1, <2>1, <2>3, <3>1, <3>2 DEF EndsReach, Reaches
  <2>6. code = 0 => Closed(f.dest)
    <3>1. cur.start = f.dest
      BY <1>5 DEF LinkInv
    <3>. QED  BY <1>5, <3>1
  <2>. QED  BY <1>1, <1>3, <2>1, <2>3, <2>4, <2>5, <2>6 DEF WalkedClosed, Closed
<1>. QED  BY <1>4, <1>5


LEMMA StepWalked ==
  ASSUME TypeInv, LinkInv, PlacesMet, EndsReach, WalkedClosed,
         InstructionsApart(image), [Next]_vars, patches' = 0
  PROVE  PlacesMet' /\ EndsReach' /\ WalkedClosed'
<1>1. /\ image' = image /\ MetCalls \subseteq MetCalls'
      /\ \A a \in Addr : Sweeps'[a] \subseteq Sweeps[a]
      /\ known \subseteq known'
  BY Standing DEF TypeInv
<1>2. /\ stack \in Seq(Frame) /\ Len(stack) \in Nat
      /\ DOMAIN stack = 1 .. Len(stack)
      /\ cur \in Frame /\ lines \in Seq(Line)
  BY DEF TypeInv, TypeOK
<1>3. ASSUME NEW i \in DOMAIN stack
      PROVE  stack[i].start \in Addr /\ stack[i].dest \in Addr
  <2>1. stack[i] \in Frame
    BY <1>2
  <2>. QED  BY <2>1 DEF Frame
<1>4. ASSUME NEW i \in DOMAIN lines PROVE lines[i].to \in Addr
  <2>1. lines[i] \in Line
    BY <1>2
  <2>. QED  BY <2>1 DEF Line
<1>5. /\ cur.start \in Addr /\ cur.dest \in Addr /\ cur.ip \in Nat
      /\ cur.size \in Nat /\ cur.end \in Nat /\ cur.probe \in Nat
      /\ cur.nextEnd \in Nat
  BY <1>2 DEF Frame, Addr
(* What stays true of what an action leaves alone.                         *)
<1>6. ASSUME UNCHANGED lines, pc' # "returned" PROVE WalkedClosed'
  BY <1>1, <1>4, <1>6 DEF WalkedClosed, Closed
<1>7. ASSUME UNCHANGED stack
      PROVE  /\ \A i \in DOMAIN stack' :
                  Met(stack[i].start, stack[i].ip + stack[i].size)'
             /\ \A i \in DOMAIN stack' : i > 1 => Reaches(stack[i].start, stack[i].end)'
  BY <1>1, <1>3, <1>7 DEF PlacesMet, EndsReach, Met, Reaches
<1>8. ASSUME UNCHANGED stack, pc \notin {"create", "done"},
             cur'.start = cur.start, cur'.end = cur.end, pc' # "trim"
      PROVE  EndsReach'
  BY <1>1, <1>5, <1>7, <1>8 DEF EndsReach, Reaches
<1>9. CASE StartFails \/ Start \/ Enter
  <2>1. CASE StartFails \/ Start
    <3>1. stack = <<>> /\ stack' = <<>> /\ cur' = cur /\ cur.ip = cur.start
          /\ pc' \in {"enter", "done"} /\ lines' = lines
      BY <2>1 DEF StartFails, Start, LinkInv
    <3>2. \A x \in DOMAIN image.code : ~ (cur.start <= x /\ x < cur.start)
      BY <1>5 DEF InstructionsApart, Addr
    <3>3. PlacesMet' /\ EndsReach'
      BY <1>1, <3>1, <3>2 DEF PlacesMet, EndsReach, Met, Working
    <3>. QED  BY <1>6, <3>1, <3>3
  <2>2. CASE Enter
    <3>1. PlacesMet'
      BY <1>1, <1>7, <2>2 DEF Enter, PlacesMet, Met, Working
    <3>. QED  BY <1>6, <1>8, <2>2, <3>1 DEF Enter
  <2>. QED  BY <1>9, <2>1, <2>2
<1>10. CASE EnterTooDeep
  BY <1>10, ReturnWalked DEF EnterTooDeep, TypeInv
<1>11. CASE SweepDone
  <2>1. ASSUME stack # <<>> PROVE Closed(cur.start)
    <3>1. Met(cur.start, cur.ip) /\ Reaches(cur.start, cur.end)
      BY <1>11, <2>1 DEF SweepDone, PlacesMet, EndsReach
    <3>2. ASSUME NEW x \in Sweeps[cur.start] PROVE x \in MetCalls
      <4>1. x \in DOMAIN image.code /\ cur.start <= x
        BY <1>5 DEF Sweeps, SweptFrom
      <4>2. x <= cur.end
        BY <3>1 DEF Reaches
      <4>3. x < cur.ip
        BY <1>5, <1>11, <4>1, <4>2 DEF SweepDone, InstructionsApart, Addr
      <4>. QED  BY <3>1, <4>1, <4>3 DEF Met
    <3>. QED  BY <3>2 DEF Closed
  <2>. QED  BY <1>11, <2>1, ReturnWalked DEF SweepDone, TypeInv
<1>12. CASE SweepPlain
  <2>1. \A x \in DOMAIN image.code :
          cur.start <= x /\ x < cur.ip + Here.size => x \in MetCalls
    BY <1>12, NothingBetween DEF SweepPlain, PlacesMet, Met, MetCalls, TypeInv
  <2>2. cur'.ip = cur.ip + Here.size /\ cur'.start = cur.start /\ cur'.end = cur.end
    BY <1>2, <1>12 DEF SweepPlain, Frame
  <2>3. PlacesMet'
    BY <1>1, <1>7, <1>12, <2>1, <2>2 DEF SweepPlain, PlacesMet, Met, Working
  <2>. QED  BY <1>6, <1>8, <1>12, <2>2, <2>3 DEF SweepPlain
<1>13. CASE SweepCall
  <2>1. ASSUME NEW x \in DOMAIN image.code,
               cur.start <= x, x < cur.ip + Here.size
        PROVE  x \in MetCalls'
    <3>1. CASE x < cur.ip
      BY <1>1, <1>13, <2>1, <3>1 DEF SweepCall, PlacesMet, Met
    <3>2. CASE x = cur.ip /\ Here = image.code[x]
      <4>1. gvdwCallStack' = Append(gvdwCallStack, Callee(Here))
        BY <1>13 DEF SweepCall
      <4>2. \E i \in DOMAIN gvdwCallStack' : gvdwCallStack'[i] = Callee(Here)
        <5>1. gvdwCallStack \in Seq(Addr)
          BY DEF TypeInv, TypeOK
        <5>. QED  BY <4>1, <5>1
      <4>. QED  BY <1>1, <3>2, <4>2 DEF MetCalls, Seen, Callee
    <3>. QED  BY <2>1, <3>1, <3>2, NothingBetween DEF TypeInv
  <2>2. /\ cur'.ip = cur.ip /\ cur'.size = Here.size
        /\ cur'.start = cur.start /\ cur'.end = cur.end
    BY <1>2, <1>13 DEF SweepCall, Frame
  <2>3. PlacesMet'
    BY <1>1, <1>7, <1>13, <2>1, <2>2 DEF SweepCall, PlacesMet, Met, Working
  <2>. QED  BY <1>6, <1>8, <1>13, <2>2, <2>3 DEF SweepCall
<1>14. CASE PostAnalysis \/ QueryRetry
  <2>1. /\ cur'.ip = cur.ip /\ cur'.size = cur.size
        /\ cur'.start = cur.start /\ cur'.end = cur.end
        /\ UNCHANGED <<stack, lines>> /\ {pc, pc'} \subseteq {"post", "query"}
    BY <1>2, <1>14 DEF PostAnalysis, QueryRetry, Frame
  <2>2. PlacesMet'
    BY <1>1, <1>7, <2>1 DEF PlacesMet, Met, Working
  <2>. QED  BY <1>6, <1>8, <2>1, <2>2
<1>15. CASE QueryKnown
  <2>1. PICK f \in GetInfo(cur.dest) :
          cur' = [cur EXCEPT !.nextEnd = f.end, !.probe = cur.dest]
    BY <1>15 DEF QueryKnown
  <2>2. /\ cur'.ip = cur.ip /\ cur'.size = cur.size /\ cur'.dest = cur.dest
        /\ cur'.start = cur.start /\ cur'.end = cur.end
        /\ cur'.nextEnd = f.end /\ cur'.probe = cur.dest
    BY <1>2, <2>1 DEF Frame
  <2>3. PlacesMet'
    BY <1>1, <1>7, <1>15, <2>2 DEF QueryKnown, PlacesMet, Met, Working
  <2>4. \A x \in Sweeps[cur.dest] : x <= f.end
    BY <1>5, <2>1 DEF Sweeps, SweptFrom
  <2>5. EndsReach'
    BY <1>1, <1>5, <1>7, <1>15, <2>2, <2>4 DEF QueryKnown, EndsReach, Reaches, Addr
  <2>. QED  BY <1>6, <1>15, <2>3, <2>5 DEF QueryKnown
<1>16. CASE TrimStep
  <2>1. /\ cur'.ip = cur.ip /\ cur'.size = cur.size /\ cur'.dest = cur.dest
        /\ cur'.start = cur.start /\ cur'.end = cur.end
        /\ cur'.nextEnd = cur.nextEnd
        /\ cur'.probe = cur.probe + DbgDisasmAt(image, cur.probe).size
    BY <1>2, <1>16 DEF TrimStep, Frame
  <2>2. DbgDisasmAt(image, cur.probe).size \in Nat
    BY HereType DEF TypeInv, Instr
  <2>3. PlacesMet'
    BY <1>1, <1>7, <1>16, <2>1 DEF TrimStep, PlacesMet, Met, Working
  <2>4. cur'.dest <= cur'.probe
    BY <1>5, <1>16, <2>1, <2>2 DEF TrimStep, EndsReach, Addr
  <2>5. EndsReach'
    BY <1>1, <1>5, <1>7, <1>16, <2>1, <2>4 DEF TrimStep, EndsReach, Reaches
  <2>. QED  BY <1>6, <1>16, <2>3, <2>5 DEF TrimStep
<1>17. ASSUME NEW e \in Nat, Recurse(e), pc = "trim", Reaches(cur.dest, e)
       PROVE  PlacesMet' /\ EndsReach' /\ WalkedClosed'
  <2>1. /\ stack' = Append(stack, cur) /\ pc' = "enter" /\ lines' = lines
        /\ cur'.start = cur.dest /\ cur'.ip = cur.dest /\ cur'.end = e
    BY <1>17 DEF Recurse, Activation
  <2>2. /\ DOMAIN stack' = 1 .. Len(stack) + 1 /\ stack'[Len(stack) + 1] = cur
        /\ \A i \in 1 .. Len(stack) : stack'[i] = stack[i]
    BY <1>2, <2>1
  <2>3. ASSUME NEW i \in DOMAIN stack', NEW x \in DOMAIN image.code,
               stack'[i].start <= x, x < stack'[i].ip + stack'[i].size
        PROVE  x \in MetCalls'
    <3>1. CASE i = Len(stack) + 1
      BY <1>1, <1>17, <2>2, <2>3, <3>1 DEF PlacesMet, Met, Working
    <3>2. CASE i # Len(stack) + 1
      <4>1. i \in DOMAIN stack /\ stack'[i] = stack[i]
        BY <1>2, <2>2, <3>2
      <4>. QED  BY <1>1, <2>3, <4>1 DEF PlacesMet, Met
    <3>. QED  BY <3>1, <3>2
  <2>4. ASSUME NEW x \in DOMAIN image.code, cur.dest <= x, x < cur.dest
        PROVE  FALSE
    BY <1>5, <2>4 DEF InstructionsApart, Addr
  <2>5. PlacesMet'
    BY <1>1, <2>1, <2>3, <2>4 DEF PlacesMet, Met, Working
  <2>6. ASSUME NEW i \in DOMAIN stack', i > 1, NEW x \in Sweeps'[stack'[i].start]
        PROVE  x <= stack'[i].end
    <3>1. CASE i = Len(stack) + 1
      <4>1. stack # <<>>
        BY <1>2, <2>6, <3>1
      <4>. QED  BY <1>1, <1>5, <1>17, <2>2, <2>6, <3>1, <4>1 DEF EndsReach, Reaches
    <3>2. CASE i # Len(stack) + 1
      <4>1. i \in DOMAIN stack /\ stack'[i] = stack[i]
        BY <1>2, <2>2, <3>2
      <4>. QED  BY <1>1, <1>3, <2>6, <4>1 DEF EndsReach, Reaches
    <3>. QED  BY <3>1, <3>2
  <2>7. EndsReach'
    BY <1>1, <1>5, <1>17, <2>1, <2>6 DEF EndsReach, Reaches
  <2>. QED  BY <1>6, <2>1, <2>5, <2>7
<1>18. CASE TrimAtInt3
  <2>1. cur.probe \in DOMAIN image.code /\ image.code[cur.probe].op = "int3"
    BY <1>18 DEF TrimAtInt3, DbgDisasmAt, Undecoded, Zeroed
  <2>2. cur.probe # 0 /\ cur.dest <= cur.probe
    BY <1>18 DEF TrimAtInt3, TypeInv, DestNonzero, EndsReach
  <2>3. ASSUME NEW x \in Sweeps[cur.dest] PROVE x <= cur.probe - 1
    <3>1. /\ x \in DOMAIN image.code /\ cur.dest <= x
          /\ \A y \in DOMAIN image.code :
               cur.dest <= y /\ y <= x => image.code[y].op # "int3"
      BY <1>5 DEF Sweeps, SweptFrom
    <3>2. ~ (cur.probe <= x)
      BY <2>1, <2>2, <3>1
    <3>. QED  BY <1>5, <3>1, <3>2 DEF InstructionsApart, Addr
  <2>4. Reaches(cur.dest, cur.probe - 1) /\ cur.probe - 1 \in Nat
    BY <1>5, <2>2, <2>3 DEF Reaches
  <2>. QED  BY <1>17, <1>18, <2>4 DEF TrimAtInt3
<1>19. CASE TrimWhole
  BY <1>5, <1>17, <1>19 DEF TrimWhole, EndsReach
<1>20. ASSUME NEW note \in {"walked", "deep", "failed"}, WriteLine(note),
              pc \in {"query", "returned"},
              note = "walked" => Closed(cur.dest)
       PROVE  PlacesMet' /\ EndsReach' /\ WalkedClosed'
  <2>1. /\ cur'.ip = cur.ip + cur.size /\ UNCHANGED stack /\ pc' = "sweep"
        /\ cur'.start = cur.start /\ cur'.end = cur.end
    BY <1>2, <1>20 DEF WriteLine, Frame
  <2>2. PlacesMet'
    BY <1>1, <1>7, <1>20, <2>1 DEF PlacesMet, Met, Working
  <2>3. ASSUME NEW i \in DOMAIN lines', lines'[i].note = "walked"
        PROVE  Sweeps'[lines'[i].to] \subseteq MetCalls'
    <3>1. lines' = Append(lines, [depth |-> cur.depth, to |-> cur.dest, note |-> note])
      BY <1>20 DEF WriteLine
    <3>2. \/ i \in DOMAIN lines /\ lines'[i] = lines[i]
          \/ lines'[i].to = cur.dest /\ lines'[i].note = note
      BY <1>2, <3>1
    <3>3. CASE i \in DOMAIN lines /\ lines'[i] = lines[i]
      BY <1>1, <1>4, <2>3, <3>3 DEF WalkedClosed, Closed
    <3>4. CASE lines'[i].to = cur.dest /\ lines'[i].note = note
      BY <1>1, <1>5, <1>20, <2>3, <3>4 DEF Closed
    <3>. QED  BY <3>2, <3>3, <3>4
  <2>4. WalkedClosed'
    BY <2>1, <2>3 DEF WalkedClosed, Closed
  <2>. QED  BY <1>8, <1>20, <2>1, <2>2, <2>4
<1>21. CASE QueryFailed
  BY <1>20, <1>21 DEF QueryFailed
<1>22. CASE Returned
  <2>1. ret \in {0, 2}
    BY <1>22 DEF Returned, LinkInv
  <2>. QED  BY <1>20, <1>22, <2>1 DEF Returned, WalkedClosed
<1>23. CASE UNCHANGED <<walk, lines>>
  <2>1. PlacesMet'
    BY <1>1, <1>7, <1>23 DEF PlacesMet, Met, walk
  <2>2. EndsReach'
    BY <1>1, <1>5, <1>7, <1>23 DEF EndsReach, Reaches, walk
  <2>3. WalkedClosed'
    BY <1>1, <1>4, <1>5, <1>23 DEF WalkedClosed, Closed, walk
  <2>. QED  BY <2>1, <2>2, <2>3
<1>. QED
  BY <1>9, <1>10, <1>11, <1>12, <1>13, <1>14, <1>15, <1>16, <1>18, <1>19, <1>21,
     <1>22, <1>23
  DEF Next, Walk, Terminated, vars

(* Of a debuggee that stands still and whose instructions do not overlap,  *)
(* a callee reported as walked has every call met that the walk into it    *)
(* has to sweep, through however many functions the walk has gone in       *)
(* between (fGetCallStackToFile, grcasm.cpp:1048-1161).                    *)
THEOREM WalkedCallsMet ==
  ASSUME \A m \in Images : InstructionsApart(m)
  PROVE  Spec => []WalkedIsClosed
<1>1. Init => WalkedInv
  BY DEF Init, Activation, WalkedInv, LinkInv, PlacesMet, EndsReach, WalkedClosed,
     Working
<1>2. TypeInv /\ WalkedInv /\ [Next]_vars => WalkedInv'
  <2>. SUFFICES ASSUME TypeInv, WalkedInv, [Next]_vars PROVE WalkedInv'
    OBVIOUS
  <2>1. LinkInv'
    BY NextLinkInv DEF TypeInv, WalkedInv
  <2>2. ASSUME patches' = 0 PROVE PlacesMet' /\ EndsReach' /\ WalkedClosed'
    <3>1. patches = 0 /\ image \in Images
      BY <2>2, Standing DEF TypeInv, TypeOK, DebuggerTypeOK
    <3>. QED  BY <2>2, <3>1, StepWalked DEF WalkedInv
  <2>. QED  BY <2>1, <2>2 DEF WalkedInv
<1>3. TypeInv /\ WalkedInv => WalkedIsClosed
  <2>. SUFFICES ASSUME TypeInv, WalkedInv, patches = 0, NEW i \in DOMAIN lines,
                       lines[i].note = "walked", NEW x \in SweptFrom(lines[i].to)
                PROVE  IsFollowed(image.code[x]) => Seen(Callee(image.code[x]))
    BY DEF WalkedIsClosed
  <2>1. lines[i].to \in Addr
    <3>1. lines[i] \in Line
      BY DEF TypeInv, TypeOK
    <3>. QED  BY <3>1 DEF Line
  <2>2. x \in MetCalls
    BY <2>1 DEF WalkedInv, WalkedClosed, Closed, Sweeps
  <2>. QED  BY <2>2 DEF MetCalls
<1>. QED
  BY <1>1, <1>2, <1>3, InitTypeInv, StepTypeInv, PTL DEF Spec

=============================================================================
