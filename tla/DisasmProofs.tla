---------------------------- MODULE DisasmProofs ----------------------------
(***************************************************************************)
(* Proofs about the extraction, for every debuggee, selection, depth and   *)
(* number of tries: what is extracted and written once; then, of the       *)
(* extraction as a whole, in what order the lines of a file stand, that    *)
(* none is left out, where the labels of its jumps are, and that the walk  *)
(* implements Extraction.                                                  *)
(***************************************************************************)
EXTENDS DisasmRefinement, SequenceTheorems, TLAPS

----------------------------------------------------------------------------
(* What the debugger's view of the debuggee returns.                       *)

LEMMA InstrType ==
  ASSUME NEW m \in Images, NEW a \in Addr
  PROVE  /\ DbgDisasmAt(m, a) \in Instr
         /\ DbgDisasmAt(m, a).e9 => DbgDisasmAt(m, a).constant # 0
<1>1. CASE a \in DOMAIN m.code
  BY <1>1, DebuggerConstants DEF DbgDisasmAt, IsImage
<1>2. CASE a \notin DOMAIN m.code
  BY <1>2 DEF DbgDisasmAt, Undecoded, Zeroed, Instr, Ops, Addr
<1>. QED  BY <1>1, <1>2

LEMMA DwordType ==
  ASSUME NEW m \in Images, NEW a \in Addr
  PROVE  ReadDword(m, a) \in Addr
BY DebuggerConstants DEF ReadDword, IsImage, Addr

LEMMA CalleeType ==
  ASSUME NEW m \in Images, NEW i \in Instr, CallJumpAddress(i) # 0
  PROVE  /\ FollowThunk(m, CallJumpAddress(i)) \in Addr
         /\ FollowThunk(m, CallJumpAddress(i)) # 0
<1>1. CallJumpAddress(i) \in Addr
  BY DEF CallJumpAddress, FixedCallAddress, Instr, Addr
<1>. DEFINE d == DbgDisasmAt(m, CallJumpAddress(i))
<1>2. d \in Instr /\ (d.e9 => d.constant # 0)
  BY <1>1, InstrType
<1>3. d.constant \in Addr
  BY <1>2 DEF Instr
<1>. QED  BY <1>1, <1>2, <1>3 DEF FollowThunk

LEMMA NameType ==
  ASSUME NEW a \in Addr
  PROVE  /\ FunctionName(a) \in Name
         /\ GdwName(a) \in Name
         /\ FallbackName(a) \in Name
BY DEF FunctionName, GdwName, FallbackName, Name, Addr

LEMMA LabelNameType ==
  ASSUME NEW j \in Jump
  PROVE  LabelName(j) \in Name
BY DEF LabelName, Jump, Name

----------------------------------------------------------------------------
(* Type correctness.  A CALL is only followed to a nonzero address, which  *)
(* keeps the end _AnalysisFunction computes (int3's address minus one) from*)
(* wrapping below zero.                                                    *)

DestNonzero ==
  /\ pc \in {"post", "query", "trim"} => cur.dest # 0
  /\ pc = "trim" => cur.probe # 0

TypeInv == TypeOK /\ DestNonzero

LEMMA ActivationType ==
  ASSUME NEW s \in Addr, NEW e \in Addr, NEW d \in Nat
  PROVE  Activation(s, e, d) \in Frame
BY DEF Activation, Frame, Undecoded, Instr, Ops, Addr

LEMMA HereType ==
  ASSUME TypeOK
  PROVE  /\ Here \in Instr
         /\ DbgDisasmAt(image, cur.probe) \in Instr
         /\ CallJumpAddress(Here) # 0 =>
              Callee(Here) \in Addr /\ Callee(Here) # 0
<1>1. image \in Images /\ cur.ip \in Addr /\ cur.probe \in Addr
  BY DEF TypeOK, DebuggerTypeOK, Frame
<1>. QED  BY <1>1, InstrType, CalleeType DEF Here, Callee

LEMMA ReturnType ==
  ASSUME TypeOK, NEW code \in 0 .. 3, Return(code)
  PROVE  /\ pc' \in {"done", "returned"}
         /\ cur' \in Frame
         /\ stack' \in Seq(Frame)
         /\ ret' \in 0 .. 3
<1>1. cur \in Frame /\ stack \in Seq(Frame)
  BY DEF TypeOK
<1>2. CASE stack = <<>>
  BY <1>1, <1>2 DEF Return
<1>3. CASE stack # <<>>
  BY <1>1, <1>3 DEF Return
<1>. QED  BY <1>2, <1>3

LEMMA WriteType ==
  ASSUME TypeOK, NEW i \in Instr, NEW t,
         t.text \in {"raw", "comment", "bytes", "call", "jump", "switch"},
         t.refs \in SUBSET Name, WriteInstr(i, t)
  PROVE  /\ files' \in Seq(File)
         /\ cur' \in Frame
         /\ pc' = "emit"
<1>1. LabelsHere \in SUBSET Name
  BY LabelNameType DEF LabelsHere, TypeOK, Frame
<1>. DEFINE line == [ip |-> cur.ip, labels |-> LabelsHere,
                     text |-> t.text, refs |-> t.refs]
<1>2. line \in Line
  BY <1>1 DEF Line, TypeOK, Frame
<1>3. files' = [files EXCEPT ![cur.file].lines = Append(@, line)]
  BY DEF WriteInstr
<1>4. files' \in Seq(File)
  <2>. HIDE DEF line
  <2>1. files \in Seq(File)
    BY DEF TypeOK
  <2>2. ASSUME cur.file \in DOMAIN files
        PROVE  [files[cur.file] EXCEPT !.lines = Append(@, line)] \in File
    <3>1. files[cur.file] \in File
      BY <2>1, <2>2
    <3>2. Append(files[cur.file].lines, line) \in Seq(Line)
      BY <1>2, <3>1 DEF File
    <3>. QED  BY <3>1, <3>2 DEF File
  <2>3. \A k \in 1 .. Len(files) : files'[k] \in File
    BY <1>3, <2>1, <2>2
  <2>4. DOMAIN files' = 1 .. Len(files) /\ Len(files) \in Nat
    BY <1>3, <2>1
  <2>5. files' = [k \in 1 .. Len(files) |-> files'[k]]
    BY <1>3, <2>4
  <2>. QED  BY <2>3, <2>4, <2>5
<1>5. cur' = [cur EXCEPT !.ip = @ + i.size]
  BY DEF WriteInstr
<1>6. cur' \in Frame
  <2>1. cur \in Frame
    BY DEF TypeOK
  <2>2. cur.ip \in Nat /\ i.size \in Nat
    BY <2>1 DEF Frame, Instr, Addr
  <2>. QED  BY <1>5, <2>1, <2>2 DEF Frame, Addr
<1>. QED  BY <1>4, <1>6 DEF WriteInstr

LEMMA CallTextType ==
  ASSUME NEW n \in Name
  PROVE  CallText(n).text = "call" /\ CallText(n).refs \in SUBSET Name
BY DEF CallText

LEMMA TextType ==
  ASSUME TypeOK, NEW i \in Instr
  PROVE  /\ Text(i).text \in {"raw", "comment", "bytes", "jump", "switch"}
         /\ Text(i).refs \in SUBSET Name
<1>1. cur.jumps \subseteq Jump
  BY DEF TypeOK, Frame
<1>2. \A a : \A type : JumpsFrom(a, type) \subseteq Jump
  BY <1>1 DEF JumpsFrom
<1>3. i.constant \in Addr
  BY DEF Instr
<1>4. SwitchText.text = "switch" /\ SwitchText.refs \in SUBSET Name
  BY <1>2, LabelNameType DEF SwitchText
<1>5. JumpRefs(i) \in SUBSET Name
  BY <1>2, <1>3, LabelNameType, NameType DEF JumpRefs
<1>6. JumpText(i).text \in {"jump", "raw"} /\ JumpText(i).refs \in SUBSET Name
  BY <1>5 DEF JumpText
<1>7. \A x : PlainText(x).text = x /\ PlainText(x).refs \in SUBSET Name
  BY DEF PlainText
<1>. QED  BY <1>4, <1>6, <1>7 DEF Text

LEMMA AddType ==
  ASSUME TypeOK, NEW a \in Addr, AddGlobalDWORDCallIntoCallAddressList(a)
  PROVE  gvdwCallAddress' \in Seq(Addr)
BY DEF AddGlobalDWORDCallIntoCallAddressList, TypeOK

LEMMA InitTypeInv == Init => TypeInv
<1>. SUFFICES ASSUME Init PROVE TypeInv
  OBVIOUS
<1>1. DebuggerTypeOK
  BY DebuggerConstants DEF Init, DebuggerInit, DebuggerTypeOK, IsImage
<1>2. PICK sel \in Selections : cur = Activation(sel.start, sel.end, 0)
  BY DEF Init
<1>3. sel.start \in Addr /\ sel.end \in Addr
  BY DisasmConstants DEF Range32
<1>4. cur \in Frame
  BY <1>2, <1>3, ActivationType
<1>. QED
  BY <1>1, <1>4 DEF Init, TypeInv, TypeOK, DestNonzero, Locations

LEMMA EnterTypeInv == TypeInv /\ Enter => TypeInv'
<1>. SUFFICES ASSUME TypeInv PROVE Enter => TypeInv'
  OBVIOUS
<1>. USE DEF TypeInv
<1>1. cur \in Frame /\ cur.start \in Addr /\ cur.end \in Addr /\ cur.depth \in Nat
  BY DEF TypeOK, Frame
<1>2. ListPath => gvDisassembleFilePaths' \in Seq(Path)
  BY <1>1 DEF ListPath, TypeOK, Path
<1>3. \A b \in BOOLEAN :
        Append(files, [created |-> b, lines |-> <<>>, closed |-> FALSE])
          \in Seq(File)
  <2>. TAKE b \in BOOLEAN
  <2>1. [created |-> b, lines |-> <<>>, closed |-> FALSE] \in File
    BY EmptySeq DEF File
  <2>2. files \in Seq(File)
    BY DEF TypeOK
  <2>. QED  BY <2>1, <2>2, AppendProperties
<1>4. ASSUME EnterRefused PROVE TypeInv'
  <2>1. EntryCode(cur) \in 0 .. 3
    BY DEF EntryCode
  <2>. QED
    BY <1>4, <2>1, ReturnType
    DEF EnterRefused, TypeOK, DebuggerTypeOK, DestNonzero, Locations, debugger, lists
<1>5. ASSUME EnterCreateFails PROVE TypeInv'
  <2>1. files' \in Seq(File)
    BY <1>3, <1>5 DEF EnterCreateFails
  <2>. QED
    BY <1>2, <1>5, <2>1, ReturnType
    DEF EnterCreateFails, TypeOK, DebuggerTypeOK, DestNonzero, Locations, debugger
<1>6. ASSUME EnterOpen PROVE TypeInv'
  <2>1. files' \in Seq(File)
    BY <1>3, <1>6 DEF EnterOpen
  <2>2. gvDisassembleFunctionDeclaration' \in Seq(Name)
    BY <1>1, <1>6, NameType DEF EnterOpen, TypeOK
  <2>3. Len(gvDisassembleFilePaths) + 1 \in Nat
    BY DEF TypeOK
  <2>4. cur' \in Frame
    BY <1>1, <1>6, <2>3 DEF EnterOpen, Frame
  <2>5. gvDisassembleFilePaths' \in Seq(Path)
    BY <1>2, <1>6 DEF EnterOpen
  <2>. QED
    BY <1>6, <2>1, <2>2, <2>4, <2>5
    DEF EnterOpen, TypeOK, DebuggerTypeOK, DestNonzero, Locations, debugger
<1>. QED  BY <1>4, <1>5, <1>6 DEF Enter

LEMMA ScanTypeInv == TypeInv /\ Scan => TypeInv'
<1>. SUFFICES ASSUME TypeInv PROVE Scan => TypeInv'
  OBVIOUS
<1>1. TypeOK /\ cur \in Frame
  BY DEF TypeInv, TypeOK
<1>2. /\ cur.ip \in Nat /\ cur.jumps \subseteq Jump /\ cur.jmpCount \in Nat
      /\ cur.first \in Nat /\ cur.second \in Nat /\ cur.start \in Nat
      /\ cur.instr \in Instr
  BY <1>1 DEF Frame, Addr
<1>3. \A i \in Instr : i.constant \in Nat /\ i.size \in Nat
  BY DEF Instr, Addr
<1>4. Here \in Instr
  BY <1>1, HereType
<1>5. TableEntry \in Nat
  <2>1. image \in Images
    BY <1>1 DEF TypeOK, DebuggerTypeOK
  <2>2. cur.instr.constant + 4 * cur.second \in Addr
    BY <1>2, <1>3 DEF Addr
  <2>. QED  BY <2>1, <2>2, DwordType DEF TableEntry, Addr
<1>6. SUFFICES ASSUME Scan
               PROVE  cur' \in Frame /\ pc' \in {"scan", "table", "emit"}
  BY <1>1 DEF Scan, ScanPlain, ScanTable, ScanTableEntry, ScanTableEnd, ScanDone,
     TypeInv, TypeOK, DebuggerTypeOK, DestNonzero, Locations, debugger, lists
<1>7. CASE ScanPlain
  <2>1. [type |-> "addr", eip |-> cur.ip, to |-> Here.constant,
         n |-> cur.jmpCount, k |-> 0] \in Jump
    BY <1>2, <1>3, <1>4 DEF Jump, Addr
  <2>2. cur.ip + Here.size \in Addr /\ cur.jmpCount + 1 \in Nat
    BY <1>2, <1>3, <1>4 DEF Addr
  <2>. QED  BY <1>1, <1>7, <2>1, <2>2 DEF ScanPlain, Frame
<1>8. CASE ScanTable
  BY <1>1, <1>4, <1>8 DEF ScanTable, Frame
<1>9. CASE ScanTableEntry
  <2>1. [type |-> "table", eip |-> cur.ip, to |-> TableEntry,
         n |-> cur.first, k |-> cur.second] \in Jump
    BY <1>2, <1>5 DEF Jump, Addr
  <2>2. cur.second + 1 \in Nat
    BY <1>2
  <2>. QED  BY <1>1, <1>9, <2>1, <2>2 DEF ScanTableEntry, Frame
<1>10. CASE ScanTableEnd
  <2>1. cur.first + 1 \in Nat /\ cur.ip + cur.instr.size \in Addr
    BY <1>2, <1>3 DEF Addr
  <2>. QED  BY <1>1, <1>10, <2>1 DEF ScanTableEnd, Frame
<1>11. CASE ScanDone
  BY <1>1, <1>2, <1>11 DEF ScanDone, Frame, Addr
<1>. QED  BY <1>6, <1>7, <1>8, <1>9, <1>10, <1>11 DEF Scan

(* What writing a CALL's line keeps, whichever action writes it.           *)
LEMMA CallLineTypeInv ==
  ASSUME TypeInv, NEW i \in Instr, NEW n \in Name, WriteInstr(i, CallText(n)),
         gvdwCallAddress' \in Seq(Addr)
  PROVE  TypeInv'
<1>1. TypeOK
  BY DEF TypeInv
<1>. DEFINE t == CallText(n)
<1>2. t.text = "call" /\ t.refs \in SUBSET Name
  BY CallTextType
<1>3. WriteInstr(i, t)
  OBVIOUS
<1>. HIDE DEF t
<1>4. files' \in Seq(File) /\ cur' \in Frame /\ pc' = "emit"
  BY <1>1, <1>2, <1>3, WriteType
<1>. QED
  BY <1>1, <1>3, <1>4
  DEF WriteInstr, TypeInv, TypeOK, DebuggerTypeOK, DestNonzero, Locations, debugger

LEMMA CallFallbackTypeInv ==
  ASSUME TypeInv, cur.dest \in Addr, cur.instr \in Instr, CallFallback
  PROVE  TypeInv'
<1>1. TypeOK
  BY DEF TypeInv
<1>2. gvdwCallAddress' \in Seq(Addr)
  BY <1>1, AddType DEF CallFallback, TypeOK
<1>3. FallbackName(cur.dest) \in Name
  BY NameType
<1>. QED  BY <1>2, <1>3, CallLineTypeInv DEF CallFallback

LEMMA EmitTypeInv == TypeInv /\ Emit => TypeInv'
<1>. SUFFICES ASSUME TypeInv PROVE Emit => TypeInv'
  OBVIOUS
<1>1. TypeOK /\ cur \in Frame
  BY DEF TypeInv, TypeOK
<1>2. Here \in Instr
  BY <1>1, HereType
<1>3. IsFollowed(Here) => Callee(Here) \in Addr /\ Callee(Here) # 0
  BY <1>1, HereType DEF IsFollowed
<1>4. ASSUME EmitPlain PROVE TypeInv'
  <2>. DEFINE t == Text(Here)
  <2>1. /\ t.text \in {"raw", "comment", "bytes", "call", "jump", "switch"}
        /\ t.refs \in SUBSET Name
    BY <1>1, <1>2, TextType
  <2>2. WriteInstr(Here, t)
    BY <1>4 DEF EmitPlain
  <2>. HIDE DEF t
  <2>3. files' \in Seq(File) /\ cur' \in Frame /\ pc' = "emit"
    BY <1>1, <1>2, <2>1, <2>2, WriteType
  <2>. QED
    BY <1>1, <1>4, <2>3
    DEF EmitPlain, WriteInstr, TypeInv, TypeOK, DebuggerTypeOK, DestNonzero,
        Locations, debugger
<1>5. ASSUME EmitCallBig PROVE TypeInv'
  <2>1. GdwName(Callee(Here)) \in Name
    BY <1>3, <1>5, NameType DEF EmitCallBig
  <2>2. gvdwCallAddress' \in Seq(Addr)
    BY <1>1, <1>3, <1>5, AddType DEF EmitCallBig
  <2>. QED  BY <1>2, <1>5, <2>1, <2>2, CallLineTypeInv DEF EmitCallBig
<1>6. ASSUME EmitCall PROVE TypeInv'
  <2>1. cur' \in Frame /\ cur'.dest # 0
    BY <1>1, <1>2, <1>3, <1>6 DEF EmitCall, Frame
  <2>. QED
    BY <1>1, <1>6, <2>1
    DEF EmitCall, TypeInv, TypeOK, DebuggerTypeOK, DestNonzero, Locations,
        debugger, lists
<1>7. ASSUME EmitDone PROVE TypeInv'
  <2>1. files \in Seq(File) /\ files' = [files EXCEPT ![cur.file].closed = TRUE]
    BY <1>1, <1>7 DEF EmitDone, TypeOK
  <2>2. \A k \in 1 .. Len(files) : [files[k] EXCEPT !.closed = TRUE] \in File
    <3>. TAKE k \in 1 .. Len(files)
    <3>1. files[k] \in File
      BY <2>1
    <3>. QED  BY <3>1 DEF File
  <2>3. \A k \in 1 .. Len(files) : files'[k] \in File
    BY <2>1, <2>2
  <2>4. DOMAIN files' = 1 .. Len(files) /\ Len(files) \in Nat
    BY <2>1
  <2>5. files' = [k \in 1 .. Len(files) |-> files'[k]]
    BY <2>1, <2>4
  <2>6. files' \in Seq(File)
    BY <2>3, <2>4, <2>5
  <2>7. Return(0)
    BY <1>7 DEF EmitDone
  <2>8. /\ pc' \in {"done", "returned"}
        /\ cur' \in Frame
        /\ stack' \in Seq(Frame)
        /\ ret' \in 0 .. 3
    BY <1>1, <2>7, ReturnType
  <2>. QED
    BY <1>1, <1>7, <2>6, <2>8
    DEF EmitDone, TypeInv, TypeOK, DebuggerTypeOK, DestNonzero, Locations, debugger
<1>. QED  BY <1>4, <1>5, <1>6, <1>7 DEF Emit

LEMMA QueryTypeInv == TypeInv /\ Query => TypeInv'
<1>. SUFFICES ASSUME TypeInv PROVE Query => TypeInv'
  OBVIOUS
<1>1. TypeOK /\ cur \in Frame
  BY DEF TypeInv, TypeOK
<1>2. cur.dest \in Addr /\ cur.instr \in Instr /\ cur.tries \in Nat
  BY <1>1 DEF Frame
<1>3. ASSUME PostAnalysis PROVE TypeInv'
  BY <1>1, <1>2, <1>3
  DEF PostAnalysis, DbgCmdExec, TypeInv, TypeOK, DebuggerTypeOK, DestNonzero,
      Locations, lists
<1>4. ASSUME QueryKnown PROVE TypeInv'
  <2>1. PICK f \in GetInfo(cur.dest) :
          cur' = [cur EXCEPT !.nextEnd = f.end, !.probe = cur.dest]
    BY <1>4 DEF QueryKnown
  <2>2. f.end \in Addr
    BY <1>1 DEF GetInfo, TypeOK, DebuggerTypeOK, Range32
  <2>3. cur' \in Frame /\ cur'.dest = cur.dest /\ cur'.probe = cur.dest
    BY <1>1, <1>2, <2>1, <2>2 DEF Frame
  <2>. QED
    BY <1>1, <1>4, <2>3
    DEF QueryKnown, TypeInv, TypeOK, DebuggerTypeOK, DestNonzero, Locations,
        debugger, lists
<1>5. ASSUME QueryRetry PROVE TypeInv'
  <2>1. cur' \in Frame /\ cur'.dest = cur.dest
    BY <1>1, <1>2, <1>5 DEF QueryRetry, Frame
  <2>. QED
    BY <1>1, <1>5, <2>1
    DEF QueryRetry, TypeInv, TypeOK, DebuggerTypeOK, DestNonzero, Locations,
        debugger, lists
<1>6. ASSUME QueryFailed PROVE TypeInv'
  BY <1>2, <1>6, CallFallbackTypeInv DEF QueryFailed
<1>. QED  BY <1>3, <1>4, <1>5, <1>6 DEF Query

LEMMA TrimTypeInv == TypeInv /\ Trim => TypeInv'
<1>. SUFFICES ASSUME TypeInv PROVE Trim => TypeInv'
  OBVIOUS
<1>1. TypeOK /\ cur \in Frame /\ stack \in Seq(Frame)
  BY DEF TypeInv, TypeOK
<1>2. /\ cur.dest \in Addr /\ cur.nextEnd \in Addr /\ cur.depth \in Nat
      /\ cur.probe \in Nat
  BY <1>1 DEF Frame, Addr
<1>3. ASSUME NEW end \in Addr, Recurse(end) PROVE TypeInv'
  <2>1. cur.depth + 1 \in Nat
    BY <1>2
  <2>2. cur' \in Frame
    BY <1>2, <1>3, <2>1, ActivationType DEF Recurse
  <2>3. stack' \in Seq(Frame)
    BY <1>1, <1>3, AppendProperties DEF Recurse
  <2>. QED
    BY <1>1, <1>3, <2>2, <2>3
    DEF Recurse, TypeInv, TypeOK, DebuggerTypeOK, DestNonzero, Locations,
        debugger, lists
<1>4. ASSUME TrimStep PROVE TypeInv'
  <2>1. DbgDisasmAt(image, cur.probe).size \in Nat
    BY <1>1, HereType DEF Instr
  <2>2. /\ cur.probe + DbgDisasmAt(image, cur.probe).size \in Nat
        /\ cur.probe + DbgDisasmAt(image, cur.probe).size # 0
    <3>1. cur.probe # 0
      BY <1>4 DEF TrimStep, TypeInv, DestNonzero
    <3>. QED  BY <1>2, <2>1, <3>1
  <2>3. cur' \in Frame /\ cur'.dest = cur.dest /\ cur'.probe # 0
    BY <1>1, <1>4, <2>2 DEF TrimStep, Frame, Addr
  <2>. QED
    BY <1>1, <1>4, <2>3
    DEF TrimStep, TypeInv, TypeOK, DebuggerTypeOK, DestNonzero, Locations,
        debugger, lists
<1>5. ASSUME TrimAtInt3 PROVE TypeInv'
  <2>1. cur.probe - 1 \in Addr
    BY <1>2, <1>5 DEF TrimAtInt3, TypeInv, DestNonzero, Addr
  <2>. QED  BY <1>3, <1>5, <2>1 DEF TrimAtInt3
<1>6. ASSUME TrimWhole PROVE TypeInv'
  BY <1>2, <1>3, <1>6 DEF TrimWhole
<1>. QED  BY <1>4, <1>5, <1>6 DEF Trim

LEMMA ReturnedTypeInv == TypeInv /\ Returned => TypeInv'
<1>. SUFFICES ASSUME TypeInv PROVE Returned => TypeInv'
  OBVIOUS
<1>1. TypeOK /\ cur.dest \in Addr /\ cur.instr \in Instr
  BY DEF TypeInv, TypeOK, Frame
<1>2. ASSUME ReturnedWritten PROVE TypeInv'
  <2>1. FunctionName(cur.dest) \in Name
    BY <1>1, NameType
  <2>2. gvdwCallAddress' \in Seq(Addr)
    BY <1>1, <1>2 DEF ReturnedWritten, TypeOK
  <2>. QED  BY <1>1, <1>2, <2>1, <2>2, CallLineTypeInv DEF ReturnedWritten
<1>3. ASSUME ReturnedRefused PROVE TypeInv'
  BY <1>1, <1>3, CallFallbackTypeInv DEF ReturnedRefused
<1>. QED  BY <1>2, <1>3 DEF Returned

LEMMA DebuggerTypeInv ==
  TypeInv /\ DebuggerNext /\ UNCHANGED <<walk, lists>> => TypeInv'
<1>. SUFFICES ASSUME TypeInv, DebuggerNext, UNCHANGED <<walk, lists>>
              PROVE  TypeInv'
  OBVIOUS
<1>1. DebuggerTypeOK
  BY DEF TypeInv, TypeOK
<1>2. DebuggerTypeOK'
  <2>1. ASSUME NEW a \in pending, Analyse(a) PROVE DebuggerTypeOK'
    <3>1. image.funcs \subseteq Range32
      BY <1>1, DebuggerConstants DEF DebuggerTypeOK, IsImage
    <3>. QED  BY <1>1, <2>1, <3>1 DEF Analyse, DebuggerTypeOK
  <2>2. ASSUME Patch PROVE DebuggerTypeOK'
    BY <1>1, <2>2 DEF Patch, DebuggerTypeOK
  <2>. QED  BY <2>1, <2>2 DEF DebuggerNext
<1>. QED  BY <1>2 DEF TypeInv, TypeOK, DestNonzero, walk, lists

LEMMA NextTypeInv == TypeInv /\ [Next]_vars => TypeInv'
<1>1. TypeInv /\ UNCHANGED vars => TypeInv'
  BY DEF TypeInv, TypeOK, DebuggerTypeOK, DestNonzero, vars, debugger, walk, lists
<1>. QED
  BY <1>1, EnterTypeInv, ScanTypeInv, EmitTypeInv, QueryTypeInv, TrimTypeInv,
     ReturnedTypeInv, DebuggerTypeInv
  DEF Next, Walk, Terminated

LEMMA TypeInvariant == Spec => []TypeInv
BY InitTypeInv, NextTypeInv, PTL DEF Spec

(* Every variable keeps its type; in particular the end address computed   *)
(* at an int3 (grcasm.cpp:143) never wraps, as only nonzero callees are    *)
(* followed (426).                                                         *)
THEOREM TypeCorrect == Spec => []TypeOK
<1>1. TypeInv => TypeOK
  BY DEF TypeInv
<1>. QED  BY <1>1, TypeInvariant, PTL

----------------------------------------------------------------------------
(* No function is extracted twice.                                         *)

(* The list of paths changes in no other way than by a function that was   *)
(* not listed.                                                             *)
LEMMA PathsStep ==
  ASSUME [Next]_vars
  PROVE  \/ ListPath /\ ~ Listed(cur.start)
         \/ UNCHANGED gvDisassembleFilePaths
<1>1. CASE Enter
  BY <1>1 DEF Enter, EnterRefused, EnterCreateFails, EnterOpen, EntryCode, lists
<1>2. CASE Scan
  BY <1>2 DEF Scan, ScanPlain, ScanTable, ScanTableEntry, ScanTableEnd, ScanDone,
     lists
<1>3. CASE Emit
  BY <1>3 DEF Emit, EmitPlain, EmitCallBig, EmitCall, EmitDone, WriteInstr, lists
<1>4. CASE Query
  BY <1>4 DEF Query, PostAnalysis, QueryKnown, QueryRetry, QueryFailed,
     CallFallback, WriteInstr, lists
<1>5. CASE Trim
  BY <1>5 DEF Trim, TrimStep, TrimAtInt3, TrimWhole, Recurse, lists
<1>6. CASE Returned
  BY <1>6 DEF Returned, ReturnedWritten, ReturnedRefused, CallFallback,
     WriteInstr
<1>7. CASE UNCHANGED lists
  BY <1>7 DEF lists
<1>. QED
  BY <1>1, <1>2, <1>3, <1>4, <1>5, <1>6, <1>7
  DEF Next, Walk, Terminated, vars

LEMMA NextDistinct ==
  TypeOK /\ DistinctFunctions /\ [Next]_vars => DistinctFunctions'
<1>. SUFFICES ASSUME TypeOK, DistinctFunctions, [Next]_vars
              PROVE  DistinctFunctions'
  OBVIOUS
<1>1. CASE ListPath /\ ~ Listed(cur.start)
  <2>. DEFINE new == [start |-> cur.start, end |-> cur.end, depth |-> cur.depth]
  <2>1. new \in Path /\ new.start = cur.start
    BY DEF TypeOK, Frame, Path
  <2>2. gvDisassembleFilePaths \in Seq(Path)
    BY DEF TypeOK
  <2>3. gvDisassembleFilePaths' = Append(gvDisassembleFilePaths, new)
    BY <1>1 DEF ListPath
  <2>. HIDE DEF new
  <2>. QED
    BY <1>1, <2>1, <2>2, <2>3, AppendProperties DEF DistinctFunctions, Listed
<1>2. CASE UNCHANGED gvDisassembleFilePaths
  BY <1>2 DEF DistinctFunctions
<1>. QED  BY <1>1, <1>2, PathsStep

(* Whatever the call graph, no two listed paths are of the same function.  *)
THEOREM FunctionsDistinct == Spec => []DistinctFunctions
<1>1. Init => DistinctFunctions
  BY DEF Init, DistinctFunctions
<1>. QED  BY <1>1, NextDistinct, TypeCorrect, PTL DEF Spec

----------------------------------------------------------------------------
(* Every gdw variable is defined once.                                     *)

(* The list of addresses changes only by the code's own check-and-append.  *)
LEMMA CallAddressStep ==
  ASSUME TypeOK, [Next]_vars
  PROVE  \/ \E a \in Addr : AddGlobalDWORDCallIntoCallAddressList(a)
         \/ UNCHANGED gvdwCallAddress
<1>1. CASE Enter
  BY <1>1 DEF Enter, EnterRefused, EnterCreateFails, EnterOpen, lists
<1>2. CASE Scan
  BY <1>2 DEF Scan, ScanPlain, ScanTable, ScanTableEntry, ScanTableEnd, ScanDone,
     lists
<1>3. CASE Emit
  <2>1. IsFollowed(Here) => Callee(Here) \in Addr
    BY HereType DEF IsFollowed
  <2>. QED
    BY <1>3, <2>1 DEF Emit, EmitPlain, EmitCallBig, EmitCall, EmitDone, lists
<1>4. cur.dest \in Addr
  BY DEF TypeOK, Frame
<1>5. CASE Query
  BY <1>4, <1>5 DEF Query, PostAnalysis, QueryKnown, QueryRetry, QueryFailed,
     CallFallback, lists
<1>6. CASE Trim
  BY <1>6 DEF Trim, TrimStep, TrimAtInt3, TrimWhole, Recurse, lists
<1>7. CASE Returned
  BY <1>4, <1>7 DEF Returned, ReturnedWritten, ReturnedRefused, CallFallback
<1>8. CASE UNCHANGED lists
  BY <1>8 DEF lists
<1>. QED
  BY <1>1, <1>2, <1>3, <1>5, <1>6, <1>7, <1>8
  DEF Next, Walk, Terminated, vars

LEMMA NextGdwOnce ==
  TypeOK /\ GdwDefinedOnce /\ [Next]_vars => GdwDefinedOnce'
<1>. SUFFICES ASSUME TypeOK, GdwDefinedOnce, [Next]_vars
              PROVE  GdwDefinedOnce'
  OBVIOUS
<1>1. ASSUME NEW a \in Addr, AddGlobalDWORDCallIntoCallAddressList(a)
      PROVE  GdwDefinedOnce'
  <2>1. gvdwCallAddress \in Seq(Addr)
    BY DEF TypeOK
  <2>2. CASE \E i \in DOMAIN gvdwCallAddress : gvdwCallAddress[i] = a
    BY <1>1, <2>2 DEF AddGlobalDWORDCallIntoCallAddressList, GdwDefinedOnce
  <2>3. CASE ~ \E i \in DOMAIN gvdwCallAddress : gvdwCallAddress[i] = a
    <3>1. gvdwCallAddress' = Append(gvdwCallAddress, a)
      BY <1>1, <2>3 DEF AddGlobalDWORDCallIntoCallAddressList
    <3>. QED  BY <2>1, <2>3, <3>1, AppendProperties DEF GdwDefinedOnce
  <2>. QED  BY <2>2, <2>3
<1>2. CASE UNCHANGED gvdwCallAddress
  BY <1>2 DEF GdwDefinedOnce
<1>. QED  BY <1>1, <1>2, CallAddressStep

(* No address gets a second gdw variable, whichever of the four places in  *)
(* the code asks for it.                                                   *)
THEOREM GdwOnce == Spec => []GdwDefinedOnce
<1>1. Init => GdwDefinedOnce
  BY DEF Init, GdwDefinedOnce
<1>. QED  BY <1>1, NextGdwOnce, TypeCorrect, PTL DEF Spec

----------------------------------------------------------------------------
(* The recursion is bounded.                                               *)

(* Past its entry an activation is within the maximum depth, so that the   *)
(* one it starts is at most one beyond and returns at once.                *)
DepthInv ==
  /\ DepthBounded
  /\ pc \notin {"enter", "done"} => cur.depth <= gdwMaxCallNumber

(* How a step moves in the call stack: it returns, it recurses, or it stays*)
(* in its activation, which it may only begin within the maximum depth.    *)
Stay ==
  /\ UNCHANGED stack
  /\ cur'.depth = cur.depth
  /\ cur'.start = cur.start
  /\ pc' = "enter" => pc = "enter"
  /\ pc = "done" => pc' = "done"
  /\ pc = "enter" /\ pc' # "enter" => cur.depth <= gdwMaxCallNumber

LEMMA StackStep ==
  ASSUME TypeOK, [Next]_vars
  PROVE  \/ \E code \in 0 .. 3 : pc # "done" /\ Return(code)
         \/ \E end \in Int : pc = "trim" /\ Recurse(end)
         \/ Stay
<1>1. cur \in Frame /\ cur.depth \in Nat /\ gdwMaxCallNumber \in Nat
  BY DisasmConstants DEF TypeOK, Frame
<1>2. CASE Enter
  <2>1. EntryCode(cur) \in 0 .. 3
    BY DEF EntryCode
  <2>2. EntryCode(cur) = 0 => cur.depth <= gdwMaxCallNumber
    BY <1>1 DEF EntryCode
  <2>. QED
    BY <1>1, <1>2, <2>1, <2>2
    DEF Enter, EnterRefused, EnterCreateFails, EnterOpen, Stay, Frame
<1>3. CASE Scan
  BY <1>1, <1>3 DEF Scan, ScanPlain, ScanTable, ScanTableEntry, ScanTableEnd,
     ScanDone, Stay, Frame
<1>4. CASE Emit
  <2>1. CASE EmitPlain
    BY <1>1, <2>1 DEF EmitPlain, WriteInstr, Stay, Frame
  <2>2. CASE EmitCallBig
    BY <1>1, <2>2 DEF EmitCallBig, WriteInstr, Stay, Frame
  <2>3. CASE EmitCall
    BY <1>1, <2>3 DEF EmitCall, Stay, Frame
  <2>4. CASE EmitDone
    <3>1. pc # "done" /\ Return(0) /\ 0 \in 0 .. 3
      BY <2>4 DEF EmitDone
    <3>. QED  BY <3>1
  <2>. QED  BY <1>4, <2>1, <2>2, <2>3, <2>4 DEF Emit
<1>5. CASE Query
  BY <1>1, <1>5 DEF Query, PostAnalysis, QueryKnown, QueryRetry, QueryFailed,
     CallFallback, WriteInstr, Stay, Frame
<1>6. CASE Trim
  <2>1. cur.nextEnd \in Int /\ cur.probe - 1 \in Int
    BY <1>1 DEF Frame, Addr
  <2>2. CASE TrimStep
    BY <1>1, <2>2 DEF TrimStep, Stay, Frame
  <2>. QED
    BY <1>6, <2>1, <2>2 DEF Trim, TrimAtInt3, TrimWhole
<1>7. CASE Returned
  BY <1>1, <1>7 DEF Returned, ReturnedWritten, ReturnedRefused, CallFallback,
     WriteInstr, Stay, Frame
<1>8. CASE UNCHANGED walk
  BY <1>8 DEF walk, Stay
<1>. QED
  BY <1>2, <1>3, <1>4, <1>5, <1>6, <1>7, <1>8
  DEF Next, Walk, Terminated, vars, walk

LEMMA NextDepth == TypeOK /\ DepthInv /\ [Next]_vars => DepthInv'
<1>. SUFFICES ASSUME TypeOK, DepthInv, [Next]_vars PROVE DepthInv'
  OBVIOUS
<1>1. /\ stack \in Seq(Frame) /\ Len(stack) \in Nat
      /\ cur.depth \in Nat /\ gdwMaxCallNumber \in Nat
  BY DisasmConstants DEF TypeOK, Frame
<1>2. ASSUME NEW code \in 0 .. 3, pc # "done", Return(code) PROVE DepthInv'
  <2>1. CASE stack = <<>>
    BY <1>1, <1>2, <2>1 DEF Return, DepthInv, DepthBounded
  <2>2. CASE stack # <<>>
    <3>1. Len(stack) \in 1 .. Len(stack) /\ stack[Len(stack)].depth = Len(stack) - 1
      BY <1>1, <2>2 DEF DepthInv, DepthBounded
    <3>2. /\ Len(stack') = Len(stack) - 1
          /\ \A i \in 1 .. Len(stack) - 1 : stack'[i] = stack[i]
      BY <1>1, <1>2, <2>2 DEF Return
    <3>3. DOMAIN stack' = 1 .. Len(stack) - 1
      BY <1>1, <1>2, <2>2 DEF Return
    <3>. QED
      BY <1>1, <1>2, <2>2, <3>1, <3>2, <3>3 DEF Return, DepthInv, DepthBounded
  <2>. QED  BY <2>1, <2>2
<1>3. ASSUME NEW end \in Int, pc = "trim", Recurse(end) PROVE DepthInv'
  <2>1. cur.depth = Len(stack) /\ cur.depth <= gdwMaxCallNumber
    BY <1>3 DEF DepthInv, DepthBounded
  <2>2. stack' = Append(stack, cur) /\ cur \in Frame
    BY <1>3 DEF Recurse, TypeOK
  <2>3. /\ Len(stack') = Len(stack) + 1
        /\ DOMAIN stack' = 1 .. Len(stack) + 1
        /\ stack'[Len(stack) + 1] = cur
        /\ \A i \in 1 .. Len(stack) : stack'[i] = stack[i]
    BY <1>1, <2>2, AppendProperties
  <2>4. cur'.depth = cur.depth + 1 /\ pc' = "enter"
    BY <1>3 DEF Recurse, Activation
  <2>. QED
    BY <1>1, <2>1, <2>3, <2>4 DEF DepthInv, DepthBounded
<1>4. CASE Stay
  BY <1>1, <1>4 DEF Stay, DepthInv, DepthBounded
<1>. QED  BY <1>2, <1>3, <1>4, StackStep

(* The C++ recursion never holds more than one activation beyond the       *)
(* maximum depth, and an activation's depth is its place in it.            *)
THEOREM RecursionBounded == Spec => []DepthBounded
<1>1. Init => DepthInv
  BY DisasmConstants DEF Init, DepthInv, DepthBounded, Activation
<1>2. DepthInv => DepthBounded
  BY DEF DepthInv
<1>. QED  BY <1>1, <1>2, NextDepth, TypeCorrect, PTL DEF Spec

----------------------------------------------------------------------------
(* Every open file has one writer.                                         *)

(* files is parallel to the listed paths.                                  *)
WriterInv ==
  /\ OneWriterPerFile
  /\ Len(files) = Len(gvDisassembleFilePaths)

(* An activation's file is open and was listed for it.                     *)
WritesOwn(o) ==
  /\ o.file \in DOMAIN files
  /\ files[o.file].created
  /\ ~ files[o.file].closed
  /\ gvDisassembleFilePaths[o.file].start = o.start

(* A step that changes neither who writes which file nor what is open.     *)
SameOpened ==
  /\ Len(Opened') = Len(Opened)
  /\ \A i \in 1 .. Len(Opened) : /\ Opened'[i].file = Opened[i].file
                                 /\ Opened'[i].start = Opened[i].start

SameFiles ==
  /\ Len(files') = Len(files)
  /\ \A k \in 1 .. Len(files) : /\ files'[k].created = files[k].created
                                /\ files'[k].closed = files[k].closed

LEMMA OpenedType ==
  /\ TypeOK => Opened \in Seq(Frame)
  /\ TypeOK' => Opened' \in Seq(Frame)
<1>1. TypeOK => Opened \in Seq(Frame)
  BY AppendProperties DEF Opened, TypeOK
<1>2. TypeOK' => Opened' \in Seq(Frame)
  BY AppendProperties DEF Opened, TypeOK
<1>. QED  BY <1>1, <1>2

(* A return from a function that has no open file leaves the writers of    *)
(* the suspended activations.                                              *)
LEMMA ReturnOpened ==
  ASSUME TypeOK, NEW code, Return(code)
  PROVE  Opened' = stack
<1>1. stack \in Seq(Frame)
  BY DEF TypeOK
<1>2. CASE stack = <<>>
  BY <1>2 DEF Return, Opened
<1>3. CASE stack # <<>>
  <2>1. /\ Len(stack) \in Nat \ {0}
        /\ Opened' = Append(SubSeq(stack, 1, Len(stack) - 1), stack[Len(stack)])
    BY <1>1, <1>3 DEF Return, Opened
  <2>. QED  BY <1>1, <2>1
<1>. QED  BY <1>2, <1>3

LEMMA WithinActivation ==
  ASSUME TypeOK, pc \notin {"enter", "done"}, pc' \notin {"enter", "done"},
         UNCHANGED stack, cur'.file = cur.file, cur'.start = cur.start
  PROVE  SameOpened
<1>1. stack \in Seq(Frame) /\ Len(stack) \in Nat
  BY DEF TypeOK
<1>2. Opened = Append(stack, cur) /\ Opened' = Append(stack, cur')
  BY DEF Opened
<1>3. ASSUME NEW x
      PROVE  /\ Len(Append(stack, x)) = Len(stack) + 1
             /\ Append(stack, x)[Len(stack) + 1] = x
             /\ \A i \in 1 .. Len(stack) : Append(stack, x)[i] = stack[i]
  BY <1>1
<1>. QED  BY <1>1, <1>2, <1>3 DEF SameOpened

LEMMA WriteSameFiles ==
  ASSUME TypeOK, NEW i, NEW t, WriteInstr(i, t)
  PROVE  SameFiles
<1>1. files \in Seq(File) /\ Len(files) \in Nat
  BY DEF TypeOK
<1>2. PICK line : files' = [files EXCEPT ![cur.file].lines = Append(@, line)]
  BY DEF WriteInstr
<1>. DEFINE new == [files[cur.file] EXCEPT !.lines = Append(@, line)]
<1>3. files' = [files EXCEPT ![cur.file] = new] /\ Len(files') = Len(files)
  BY <1>1, <1>2
<1>4. ASSUME NEW k \in 1 .. Len(files)
      PROVE  /\ files'[k].created = files[k].created
             /\ files'[k].closed = files[k].closed
  <2>1. files[k] \in File
    BY <1>1
  <2>2. CASE k = cur.file
    <3>. HIDE DEF new
    <3>1. files'[k] = new
      BY <1>1, <1>3, <2>2
    <3>. QED  BY <2>1, <2>2, <3>1 DEF File, new
  <2>3. CASE k # cur.file
    BY <1>1, <1>3, <2>3
  <2>. QED  BY <2>2, <2>3
<1>. QED  BY <1>3, <1>4 DEF SameFiles

LEMMA WriteQuiet ==
  ASSUME TypeOK, pc \notin {"enter", "done"}, NEW i, NEW t, WriteInstr(i, t)
  PROVE  SameOpened /\ SameFiles /\ UNCHANGED gvDisassembleFilePaths
<1>1. cur \in Frame
  BY DEF TypeOK
<1>2. cur'.file = cur.file /\ cur'.start = cur.start
  BY <1>1 DEF WriteInstr, Frame
<1>. QED  BY <1>2, WithinActivation, WriteSameFiles DEF WriteInstr

LEMMA WriterStep ==
  ASSUME TypeOK, [Next]_vars
  PROVE  \/ SameOpened /\ SameFiles /\ UNCHANGED gvDisassembleFilePaths
         \/ SameOpened /\ EnterCreateFails
         \/ EnterOpen
         \/ EmitDone
<1>. DEFINE Quiet == SameOpened /\ SameFiles /\ UNCHANGED gvDisassembleFilePaths
<1>1. cur \in Frame
  BY DEF TypeOK
<1>2. CASE Enter
  <2>1. CASE EnterRefused
    <3>1. Opened' = Opened
      BY <2>1, ReturnOpened DEF EnterRefused, Opened
    <3>. QED  BY <2>1, <3>1 DEF EnterRefused, lists, SameOpened, SameFiles
  <2>2. CASE EnterCreateFails
    <3>1. Opened' = Opened
      BY <2>2, ReturnOpened DEF EnterCreateFails, Opened
    <3>. QED  BY <2>2, <3>1 DEF SameOpened
  <2>. QED  BY <1>2, <2>1, <2>2 DEF Enter
<1>3. CASE Scan
  <2>1. /\ UNCHANGED <<stack, lists>>
        /\ pc \in {"scan", "table"} /\ pc' \in {"scan", "table", "emit"}
        /\ cur'.file = cur.file /\ cur'.start = cur.start
    BY <1>1, <1>3 DEF Scan, ScanPlain, ScanTable, ScanTableEntry, ScanTableEnd,
       ScanDone, Frame
  <2>. QED  BY <2>1, WithinActivation DEF lists, SameFiles
<1>4. CASE Emit
  <2>1. CASE EmitPlain
    BY <2>1, WriteQuiet DEF EmitPlain
  <2>2. CASE EmitCallBig
    BY <2>2, WriteQuiet DEF EmitCallBig
  <2>3. CASE EmitCall
    <3>1. /\ UNCHANGED <<stack, lists>> /\ pc = "emit" /\ pc' = "post"
          /\ cur'.file = cur.file /\ cur'.start = cur.start
      BY <1>1, <2>3 DEF EmitCall, Frame
    <3>. QED  BY <3>1, WithinActivation DEF lists, SameFiles
  <2>. QED  BY <1>4, <2>1, <2>2, <2>3 DEF Emit
<1>5. CASE Query
  <2>1. CASE QueryFailed
    BY <2>1, WriteQuiet DEF QueryFailed, CallFallback
  <2>2. CASE PostAnalysis \/ QueryKnown \/ QueryRetry
    <3>1. /\ UNCHANGED <<stack, lists>>
          /\ pc \in {"post", "query"} /\ pc' \in {"post", "query", "trim"}
          /\ cur'.file = cur.file /\ cur'.start = cur.start
      BY <1>1, <2>2 DEF PostAnalysis, QueryKnown, QueryRetry, Frame
    <3>. QED  BY <3>1, WithinActivation DEF lists, SameFiles
  <2>. QED  BY <1>5, <2>1, <2>2 DEF Query
<1>6. CASE Trim
  <2>1. CASE TrimStep
    <3>1. /\ UNCHANGED <<stack, lists>> /\ pc = "trim" /\ pc' = "trim"
          /\ cur'.file = cur.file /\ cur'.start = cur.start
      BY <1>1, <2>1 DEF TrimStep, Frame
    <3>. QED  BY <3>1, WithinActivation DEF lists, SameFiles
  <2>2. ASSUME pc = "trim", NEW end, Recurse(end) PROVE Quiet
    <3>1. Opened' = Opened
      BY <2>2 DEF Recurse, Opened
    <3>. QED  BY <2>2, <3>1 DEF Recurse, lists, SameOpened, SameFiles
  <2>. QED  BY <1>6, <2>1, <2>2 DEF Trim, TrimAtInt3, TrimWhole
<1>7. CASE Returned
  BY <1>7, WriteQuiet DEF Returned, ReturnedWritten, ReturnedRefused, CallFallback
<1>8. CASE UNCHANGED <<walk, lists>>
  <2>1. Opened' = Opened
    BY <1>8 DEF walk, Opened
  <2>. QED  BY <1>8, <2>1 DEF lists, SameOpened, SameFiles
<1>. QED
  BY <1>2, <1>3, <1>4, <1>5, <1>6, <1>7, <1>8
  DEF Next, Walk, Terminated, vars, walk, lists

LEMMA QuietWriter ==
  ASSUME TypeOK, TypeOK', WriterInv, SameOpened, SameFiles,
         UNCHANGED gvDisassembleFilePaths
  PROVE  WriterInv'
<1>1. /\ DOMAIN Opened = 1 .. Len(Opened) /\ DOMAIN Opened' = 1 .. Len(Opened)
      /\ DOMAIN files = 1 .. Len(files) /\ DOMAIN files' = 1 .. Len(files)
  <2>1. Opened \in Seq(Frame) /\ files \in Seq(File)
    BY OpenedType DEF TypeOK
  <2>2. Opened' \in Seq(Frame) /\ files' \in Seq(File)
    BY OpenedType DEF TypeOK
  <2>. QED  BY <2>1, <2>2 DEF SameOpened, SameFiles
<1>. QED  BY <1>1 DEF WriterInv, OneWriterPerFile, SameOpened, SameFiles

(* A file that could not be created has no writer.                         *)
LEMMA LostWriter ==
  ASSUME TypeOK, TypeOK', WriterInv, SameOpened, EnterCreateFails
  PROVE  WriterInv'
<1>1. /\ Opened \in Seq(Frame) /\ Opened' \in Seq(Frame)
      /\ files \in Seq(File) /\ gvDisassembleFilePaths \in Seq(Path)
  BY OpenedType DEF TypeOK
<1>2. /\ DOMAIN Opened = 1 .. Len(Opened) /\ DOMAIN Opened' = 1 .. Len(Opened)
      /\ DOMAIN files = 1 .. Len(files) /\ Len(files) \in Nat
      /\ Len(files) = Len(gvDisassembleFilePaths)
  BY <1>1 DEF SameOpened, WriterInv
<1>3. /\ Len(files') = Len(files) + 1 /\ DOMAIN files' = 1 .. Len(files) + 1
      /\ \A k \in 1 .. Len(files) : files'[k] = files[k]
      /\ ~ files'[Len(files) + 1].created
  BY <1>1 DEF EnterCreateFails
<1>4. /\ Len(gvDisassembleFilePaths') = Len(files) + 1
      /\ \A k \in 1 .. Len(files) :
           gvDisassembleFilePaths'[k] = gvDisassembleFilePaths[k]
  BY <1>1, <1>2 DEF EnterCreateFails, ListPath
<1>5. \A i \in DOMAIN Opened : WritesOwn(Opened[i])
  BY DEF WriterInv, OneWriterPerFile, WritesOwn
<1>6. \A i \in DOMAIN Opened' : WritesOwn(Opened[i])'
  BY <1>2, <1>3, <1>4, <1>5 DEF WritesOwn, SameOpened
<1>7. \A i, j \in DOMAIN Opened' : Opened'[i].file = Opened'[j].file => i = j
  BY <1>2 DEF WriterInv, OneWriterPerFile, SameOpened
<1>8. ASSUME NEW k \in DOMAIN files', files'[k].created, ~ files'[k].closed
      PROVE  \E i \in DOMAIN Opened' : Opened'[i].file = k
  <2>1. k \in DOMAIN files /\ files'[k] = files[k]
    BY <1>2, <1>3, <1>8
  <2>2. PICK i \in DOMAIN Opened : Opened[i].file = k
    BY <1>8, <2>1 DEF WriterInv, OneWriterPerFile
  <2>. QED  BY <1>2, <2>2 DEF SameOpened
<1>. QED
  BY <1>3, <1>4, <1>6, <1>7, <1>8 DEF WriterInv, OneWriterPerFile, WritesOwn

(* A new file has the running activation for its writer.                   *)
LEMMA OpenWriter ==
  ASSUME TypeOK, WriterInv, EnterOpen
  PROVE  WriterInv'
<1>1. /\ Opened = stack /\ Opened' = Append(stack, cur')
      /\ stack \in Seq(Frame) /\ Len(stack) \in Nat
      /\ files \in Seq(File) /\ gvDisassembleFilePaths \in Seq(Path)
  BY DEF TypeOK, EnterOpen, Opened
<1>2. /\ DOMAIN Opened = 1 .. Len(stack)
      /\ DOMAIN Opened' = 1 .. Len(stack) + 1
      /\ \A i \in 1 .. Len(stack) : Opened'[i] = Opened[i]
      /\ Opened'[Len(stack) + 1] = cur'
  BY <1>1
<1>3. /\ DOMAIN files = 1 .. Len(files) /\ Len(files) \in Nat
      /\ Len(files) = Len(gvDisassembleFilePaths)
  BY <1>1 DEF WriterInv
<1>4. /\ Len(files') = Len(files) + 1 /\ DOMAIN files' = 1 .. Len(files) + 1
      /\ \A k \in 1 .. Len(files) : files'[k] = files[k]
      /\ files'[Len(files) + 1].created /\ ~ files'[Len(files) + 1].closed
  BY <1>1 DEF EnterOpen
<1>5. /\ Len(gvDisassembleFilePaths') = Len(files) + 1
      /\ \A k \in 1 .. Len(files) :
           gvDisassembleFilePaths'[k] = gvDisassembleFilePaths[k]
      /\ gvDisassembleFilePaths'[Len(files) + 1].start = cur.start
  BY <1>1, <1>3 DEF EnterOpen, ListPath
<1>6. cur'.file = Len(files) + 1 /\ cur'.start = cur.start
  BY <1>3 DEF EnterOpen, TypeOK, Frame
<1>7. \A i \in DOMAIN Opened : WritesOwn(Opened[i])
  BY DEF WriterInv, OneWriterPerFile, WritesOwn
<1>8. \A i \in DOMAIN Opened' : WritesOwn(Opened[i])'
  <2>. SUFFICES ASSUME NEW i \in 1 .. Len(stack) + 1
                PROVE  WritesOwn(Opened[i])'
    BY <1>2
  <2>1. CASE i = Len(stack) + 1
    BY <1>2, <1>3, <1>4, <1>5, <1>6, <2>1 DEF WritesOwn
  <2>2. CASE i # Len(stack) + 1
    <3>1. i \in 1 .. Len(stack)
      BY <1>1, <2>2
    <3>2. Opened'[i] = Opened[i] /\ WritesOwn(Opened[i])
      BY <1>2, <1>7, <3>1
    <3>. QED  BY <1>3, <1>4, <1>5, <3>2 DEF WritesOwn
  <2>. QED  BY <2>1, <2>2
<1>9. \A i, j \in DOMAIN Opened' : Opened'[i].file = Opened'[j].file => i = j
  <2>1. \A i \in 1 .. Len(stack) : Opened'[i].file \in 1 .. Len(files)
    BY <1>2, <1>3, <1>7 DEF WritesOwn
  <2>2. \A i, j \in 1 .. Len(stack) : Opened'[i].file = Opened'[j].file => i = j
    BY <1>2 DEF WriterInv, OneWriterPerFile
  <2>3. \A i \in DOMAIN Opened' : i \in 1 .. Len(stack) \/ i = Len(stack) + 1
    BY <1>2
  <2>. QED  BY <1>2, <1>3, <1>6, <2>1, <2>2, <2>3
<1>10. ASSUME NEW k \in DOMAIN files', files'[k].created, ~ files'[k].closed
       PROVE  \E i \in DOMAIN Opened' : Opened'[i].file = k
  <2>1. CASE k = Len(files) + 1
    BY <1>2, <1>6, <2>1
  <2>2. CASE k # Len(files) + 1
    <3>1. k \in DOMAIN files /\ files'[k] = files[k]
      BY <1>3, <1>4, <1>10, <2>2
    <3>2. PICK i \in DOMAIN Opened : Opened[i].file = k
      BY <1>10, <3>1 DEF WriterInv, OneWriterPerFile
    <3>. QED  BY <1>2, <3>2
  <2>. QED  BY <2>1, <2>2
<1>. QED
  BY <1>4, <1>5, <1>8, <1>9, <1>10 DEF WriterInv, OneWriterPerFile, WritesOwn

(* The file that is closed is that of the activation that returns.         *)
LEMMA CloseWriter ==
  ASSUME TypeOK, WriterInv, EmitDone
  PROVE  WriterInv'
<1>1. /\ Opened = Append(stack, cur) /\ Opened' = stack
      /\ stack \in Seq(Frame) /\ Len(stack) \in Nat
      /\ files \in Seq(File)
  BY ReturnOpened DEF TypeOK, EmitDone, Opened
<1>2. /\ Len(stack) \in Nat
      /\ DOMAIN Opened' = 1 .. Len(stack)
      /\ DOMAIN Opened = 1 .. Len(stack) + 1
      /\ \A i \in 1 .. Len(stack) : Opened[i] = Opened'[i]
      /\ Opened[Len(stack) + 1] = cur
  BY <1>1
<1>3. \A i \in DOMAIN Opened : WritesOwn(Opened[i])
  BY DEF WriterInv, OneWriterPerFile, WritesOwn
<1>4. cur.file \in DOMAIN files
  BY <1>2, <1>3 DEF WritesOwn
<1>5. /\ DOMAIN files' = DOMAIN files /\ Len(files') = Len(files)
      /\ \A k \in DOMAIN files \ {cur.file} : files'[k] = files[k]
      /\ files'[cur.file].closed
  <2>1. files[cur.file] \in File
    BY <1>1, <1>4
  <2>. QED  BY <1>1, <1>4, <2>1 DEF EmitDone, File
<1>6. \A i, j \in DOMAIN Opened : Opened[i].file = Opened[j].file => i = j
  BY DEF WriterInv, OneWriterPerFile
<1>7. \A i \in 1 .. Len(stack) : Opened[i].file # cur.file
  BY <1>2, <1>6
<1>8. UNCHANGED gvDisassembleFilePaths
  BY DEF EmitDone
<1>9. \A i \in DOMAIN Opened' : WritesOwn(Opened[i])'
  BY <1>2, <1>3, <1>5, <1>7, <1>8 DEF WritesOwn
<1>10. \A i, j \in DOMAIN Opened' : Opened'[i].file = Opened'[j].file => i = j
  BY <1>2, <1>6
<1>11. ASSUME NEW k \in DOMAIN files', files'[k].created, ~ files'[k].closed
       PROVE  \E i \in DOMAIN Opened' : Opened'[i].file = k
  <2>1. k \in DOMAIN files /\ k # cur.file /\ files'[k] = files[k]
    BY <1>5, <1>11
  <2>2. PICK i \in DOMAIN Opened : Opened[i].file = k
    BY <1>11, <2>1 DEF WriterInv, OneWriterPerFile
  <2>3. i \in 1 .. Len(stack)
    BY <1>2, <2>1, <2>2
  <2>. QED  BY <1>2, <2>2, <2>3
<1>. QED
  BY <1>5, <1>8, <1>9, <1>10, <1>11 DEF WriterInv, OneWriterPerFile, WritesOwn

(* No two activations ever write one file, an activation writes the file   *)
(* its own path was listed for, and no file is left open.                  *)
THEOREM WritersDistinct == Spec => []OneWriterPerFile
<1>1. Init => WriterInv
  BY DEF Init, WriterInv, OneWriterPerFile, Opened
<1>2. TypeOK /\ TypeOK' /\ WriterInv /\ [Next]_vars => WriterInv'
  BY WriterStep, QuietWriter, LostWriter, OpenWriter, CloseWriter
<1>3. WriterInv => OneWriterPerFile
  BY DEF WriterInv
<1>. QED  BY <1>1, <1>2, <1>3, TypeCorrect, PTL DEF Spec

----------------------------------------------------------------------------
(* CALL lines: what a return code tells the caller, and that every name a  *)
(* CALL uses can be bound.                                                 *)

(* What is proved in DisasmProofs and used here.                           *)
Known == TypeInv /\ WriterInv /\ DepthInv

LEMMA KnownInvariant == Spec => []Known
<1>1. Init => WriterInv
  BY DEF Init, WriterInv, OneWriterPerFile, Opened
<1>2. TypeOK /\ TypeOK' /\ WriterInv /\ [Next]_vars => WriterInv'
  BY WriterStep, QuietWriter, LostWriter, OpenWriter, CloseWriter
<1>3. Init => DepthInv
  BY DisasmConstants DEF Init, DepthInv, DepthBounded, Activation
<1>. QED
  BY <1>1, <1>2, <1>3, NextDepth, TypeCorrect, TypeInvariant, PTL DEF Spec, Known

----------------------------------------------------------------------------
(* Return codes.                                                           *)

(* An activation extracts what its caller's CALL leads to.                 *)
CalleeLinked ==
  /\ \A i \in 1 .. Len(stack) - 1 : stack[i + 1].start = stack[i].dest
  /\ pc # "done" /\ stack # <<>> => cur.start = stack[Len(stack)].dest

LEMMA NextCalleeLinked ==
  TypeOK /\ CalleeLinked /\ [Next]_vars => CalleeLinked'
<1>. SUFFICES ASSUME TypeOK, CalleeLinked, [Next]_vars PROVE CalleeLinked'
  OBVIOUS
<1>1. /\ stack \in Seq(Frame) /\ Len(stack) \in Nat
      /\ cur \in Frame
  BY DEF TypeOK
<1>2. ASSUME NEW code \in 0 .. 3, pc # "done", Return(code) PROVE CalleeLinked'
  <2>1. CASE stack = <<>>
    BY <1>2, <2>1 DEF Return, CalleeLinked
  <2>2. CASE stack # <<>>
    <3>1. /\ Len(stack') = Len(stack) - 1 /\ stack' \in Seq(Frame)
          /\ \A i \in 1 .. Len(stack) - 1 : stack'[i] = stack[i]
          /\ cur' = stack[Len(stack)]
      BY <1>1, <1>2, <2>2 DEF Return
    <3>2. \A i \in 1 .. Len(stack) - 1 : stack[i + 1].start = stack[i].dest
      BY DEF CalleeLinked
    <3>3. \A i \in 1 .. Len(stack') - 1 : stack'[i + 1].start = stack'[i].dest
      BY <1>1, <3>1, <3>2
    <3>4. ASSUME stack' # <<>>
          PROVE  cur'.start = stack'[Len(stack')].dest
      <4>1. Len(stack) - 1 \in 1 .. Len(stack) - 1
        BY <1>1, <3>1, <3>4
      <4>2. stack[Len(stack) - 1 + 1].start = stack[Len(stack) - 1].dest
        BY <3>2, <4>1
      <4>. QED  BY <1>1, <3>1, <4>1, <4>2
    <3>. QED  BY <3>3, <3>4 DEF CalleeLinked
  <2>. QED  BY <2>1, <2>2
<1>3. ASSUME NEW end \in Int, pc = "trim", Recurse(end) PROVE CalleeLinked'
  <2>1. /\ stack' = Append(stack, cur) /\ cur'.start = cur.dest
    BY <1>3 DEF Recurse, Activation
  <2>2. /\ Len(stack') = Len(stack) + 1 /\ stack'[Len(stack) + 1] = cur
        /\ \A i \in 1 .. Len(stack) : stack'[i] = stack[i]
    BY <1>1, <2>1
  <2>3. stack # <<>> => cur.start = stack[Len(stack)].dest
    BY <1>3 DEF CalleeLinked
  <2>4. ASSUME NEW i \in 1 .. Len(stack') - 1
        PROVE  stack'[i + 1].start = stack'[i].dest
    <3>1. CASE i = Len(stack)
      BY <1>1, <2>2, <2>3, <3>1
    <3>2. CASE i # Len(stack)
      <4>1. i \in 1 .. Len(stack) - 1 /\ i + 1 \in 1 .. Len(stack)
        BY <1>1, <2>2, <3>2
      <4>. QED  BY <2>2, <4>1 DEF CalleeLinked
    <3>. QED  BY <3>1, <3>2
  <2>. QED  BY <2>1, <2>2, <2>4 DEF CalleeLinked
<1>4. CASE Stay
  BY <1>1, <1>4 DEF Stay, CalleeLinked
<1>. QED  BY <1>2, <1>3, <1>4, StackStep

LEMMA ReturnedStep ==
  ASSUME [Next]_vars
  PROVE  \/ EnterRefused \/ EnterCreateFails \/ EmitDone
         \/ pc' # "returned"
         \/ UNCHANGED <<walk, lists>>
<1>1. CASE Enter
  BY <1>1 DEF Enter, EnterOpen
<1>2. CASE Scan
  BY <1>2 DEF Scan, ScanPlain, ScanTable, ScanTableEntry, ScanTableEnd, ScanDone
<1>3. CASE Emit
  BY <1>3 DEF Emit, EmitPlain, EmitCallBig, EmitCall, WriteInstr
<1>4. CASE Query
  BY <1>4 DEF Query, PostAnalysis, QueryKnown, QueryRetry, QueryFailed,
     CallFallback, WriteInstr
<1>5. CASE Trim
  BY <1>5 DEF Trim, TrimStep, TrimAtInt3, TrimWhole, Recurse
<1>6. CASE Returned
  BY <1>6 DEF Returned, ReturnedWritten, ReturnedRefused, CallFallback, WriteInstr
<1>. QED
  BY <1>1, <1>2, <1>3, <1>4, <1>5, <1>6 DEF Next, Walk, Terminated, vars

(* The running activation's file is the one listed for its function.       *)
LEMMA RunningFile ==
  ASSUME TypeOK, WriterInv, pc \notin {"enter", "done"}
  PROVE  /\ cur.file \in DOMAIN files
         /\ cur.file \in DOMAIN gvDisassembleFilePaths
         /\ gvDisassembleFilePaths[cur.file].start = cur.start
<1>1. /\ stack \in Seq(Frame) /\ cur \in Frame
      /\ files \in Seq(File) /\ gvDisassembleFilePaths \in Seq(Path)
  BY DEF TypeOK
<1>2. Len(stack) + 1 \in DOMAIN Opened /\ Opened[Len(stack) + 1] = cur
  BY <1>1 DEF Opened
<1>3. /\ cur.file \in DOMAIN files
      /\ gvDisassembleFilePaths[cur.file].start = cur.start
  BY <1>2 DEF WriterInv, OneWriterPerFile
<1>. QED  BY <1>1, <1>3 DEF WriterInv

LEMMA NextHonest ==
  Known /\ CalleeLinked /\ ReturnCodeHonest /\ [Next]_vars => ReturnCodeHonest'
<1>. SUFFICES ASSUME Known, CalleeLinked, ReturnCodeHonest, [Next]_vars,
                     pc' = "returned"
              PROVE  ReturnCodeHonest'
  BY DEF ReturnCodeHonest
<1>1. TypeOK /\ WriterInv /\ DepthBounded
  BY DEF Known, TypeInv, DepthInv
<1>2. /\ stack \in Seq(Frame) /\ Len(stack) \in Nat /\ cur \in Frame
      /\ files \in Seq(File) /\ gvDisassembleFilePaths \in Seq(Path)
      /\ gdwMaxCallNumber \in Nat
  BY <1>1, DisasmConstants DEF TypeOK
<1>3. ASSUME pc # "done", NEW code, Return(code)
      PROVE  /\ Len(stack) \in 1 .. Len(stack)
             /\ ret' = code /\ cur' = stack[Len(stack)]
             /\ cur'.dest = cur.start
             /\ cur'.depth = Len(stack) - 1
  <2>1. stack # <<>> /\ ret' = code /\ cur' = stack[Len(stack)]
    BY <1>3 DEF Return
  <2>2. Len(stack) \in 1 .. Len(stack)
    BY <1>2, <2>1
  <2>. QED
    BY <1>1, <1>2, <1>3, <2>1, <2>2 DEF CalleeLinked, DepthBounded
<1>4. CASE EnterRefused
  <2>1. /\ pc = "enter" /\ EntryCode(cur) # 0 /\ Return(EntryCode(cur))
        /\ UNCHANGED lists
    BY <1>4 DEF EnterRefused
  <2>2. /\ EntryCode(cur) \in {1, 2}
        /\ EntryCode(cur) = 1 => Listed(cur.start)
        /\ EntryCode(cur) = 2 => cur.depth > gdwMaxCallNumber
    BY <2>1 DEF EntryCode, gvdwIgnoreCallAddress
  <2>3. cur.depth = Len(stack) /\ Len(stack) <= gdwMaxCallNumber + 1
    BY <1>1, <2>1 DEF DepthBounded
  <2>4. /\ ret' = EntryCode(cur) /\ cur'.dest = cur.start
        /\ cur'.depth = Len(stack) - 1
    BY <1>3, <2>1
  <2>5. ret' = 2 => cur'.depth = gdwMaxCallNumber
    BY <1>2, <2>2, <2>3, <2>4
  <2>6. ret' = 1 => Listed(cur.dest)'
    BY <2>1, <2>2, <2>4 DEF Listed, lists
  <2>. QED  BY <2>2, <2>4, <2>5, <2>6 DEF ReturnCodeHonest
<1>5. CASE EnterCreateFails
  <2>1. ret' = 3 /\ cur'.dest = cur.start
    BY <1>3, <1>5 DEF EnterCreateFails
  <2>. DEFINE n == Len(files) + 1
  <2>2. n \in DOMAIN files' /\ ~ files'[n].created
    BY <1>2, <1>5 DEF EnterCreateFails
  <2>3. /\ n \in DOMAIN gvDisassembleFilePaths'
        /\ gvDisassembleFilePaths'[n].start = cur.start
    BY <1>1, <1>2, <1>5 DEF EnterCreateFails, ListPath, WriterInv
  <2>. HIDE DEF n
  <2>. QED  BY <2>1, <2>2, <2>3 DEF ReturnCodeHonest, Listed
<1>6. CASE EmitDone
  <2>1. /\ pc = "emit" /\ Return(0) /\ UNCHANGED gvDisassembleFilePaths
    BY <1>6 DEF EmitDone
  <2>2. ret' = 0 /\ cur'.dest = cur.start
    BY <1>3, <2>1
  <2>3. Listed(cur.start)
    BY <1>1, <2>1, RunningFile DEF Listed
  <2>4. Listed(cur.dest)'
    BY <2>1, <2>2, <2>3 DEF Listed
  <2>. QED  BY <2>2, <2>4 DEF ReturnCodeHonest
<1>7. CASE UNCHANGED <<walk, lists>>
  BY <1>7 DEF walk, lists, ReturnCodeHonest, Listed
<1>. QED  BY <1>4, <1>5, <1>6, <1>7, ReturnedStep

(* What a caller concludes from the return code is so: 0 and 1, the callee *)
(* is listed; 2, the caller is at the maximum depth; 3, the callee's file  *)
(* was not created (grcasm.cpp:501-543).                                   *)
THEOREM ReturnCodesHonest == Spec => []ReturnCodeHonest
<1>1. Init => CalleeLinked /\ ReturnCodeHonest
  BY DEF Init, CalleeLinked, ReturnCodeHonest
<1>2. TypeOK /\ CalleeLinked /\ [Next]_vars => CalleeLinked'
  BY NextCalleeLinked
<1>3. Known => TypeOK
  BY DEF Known, TypeInv
<1>. QED  BY <1>1, <1>2, <1>3, NextHonest, KnownInvariant, PTL DEF Spec

----------------------------------------------------------------------------
(* The names of CALL lines.                                                *)

(* The names the CALL lines of one file use.                               *)
NamesOf(f) == UNION {f.lines[j].refs :
                       j \in {x \in DOMAIN f.lines : f.lines[x].text = "call"}}

LEMMA CalledByFile == CalledNames = UNION {NamesOf(files[k]) : k \in DOMAIN files}
BY DEF CalledNames, NamesOf

LEMMA CalledByFileNext ==
  CalledNames' = UNION {NamesOf(files'[k]) : k \in DOMAIN files'}
BY DEF CalledNames, NamesOf

(* A line adds the names it calls.                                         *)
LEMMA AppendedNames ==
  ASSUME NEW f \in File, NEW g \in File, NEW line \in Line,
         g.lines = Append(f.lines, line)
  PROVE  NamesOf(g) = NamesOf(f) \cup
                        (IF line.text = "call" THEN line.refs ELSE {})
<1>1. f.lines \in Seq(Line) /\ Len(f.lines) \in Nat
  BY DEF File
<1>. DEFINE n == Len(f.lines) + 1
<1>2. /\ DOMAIN f.lines = 1 .. Len(f.lines)
      /\ DOMAIN g.lines = 1 .. n
      /\ g.lines[n] = line
      /\ \A j \in DOMAIN f.lines : g.lines[j] = f.lines[j]
  BY <1>1
<1>3. DOMAIN g.lines = DOMAIN f.lines \cup {n}
  BY <1>1, <1>2
<1>. HIDE DEF n
<1>4. ASSUME NEW r
      PROVE  r \in NamesOf(g) <=>
               \/ r \in NamesOf(f)
               \/ line.text = "call" /\ r \in line.refs
  <2>1. r \in NamesOf(g) <=> \E j \in DOMAIN g.lines :
                               g.lines[j].text = "call" /\ r \in g.lines[j].refs
    BY DEF NamesOf
  <2>2. r \in NamesOf(f) <=> \E j \in DOMAIN f.lines :
                               f.lines[j].text = "call" /\ r \in f.lines[j].refs
    BY DEF NamesOf
  <2>. QED  BY <1>2, <1>3, <2>1, <2>2
<1>. QED  BY <1>4

LEMMA WrittenNames ==
  ASSUME TypeOK, TypeOK', WriterInv, pc \notin {"enter", "done"},
         NEW i, NEW t, WriteInstr(i, t)
  PROVE  CalledNames' = CalledNames \cup
                          (IF t.text = "call" THEN t.refs ELSE {})
<1>. DEFINE line == [ip |-> cur.ip, labels |-> LabelsHere,
                     text |-> t.text, refs |-> t.refs]
            new == [files[cur.file] EXCEPT !.lines = Append(@, line)]
<1>1. files \in Seq(File) /\ files' \in Seq(File)
  BY DEF TypeOK
<1>2. cur.file \in DOMAIN files
  BY RunningFile
<1>3. files' = [files EXCEPT ![cur.file] = new]
  BY DEF WriteInstr
<1>4. /\ DOMAIN files' = DOMAIN files
      /\ \A k \in DOMAIN files \ {cur.file} : files'[k] = files[k]
      /\ files'[cur.file] = new
  <2>. HIDE DEF new
  <2>. QED  BY <1>1, <1>2, <1>3
<1>5. files[cur.file] \in File /\ files'[cur.file] \in File
  BY <1>1, <1>2, <1>4
<1>6. files'[cur.file].lines = Append(files[cur.file].lines, line)
  BY <1>4, <1>5 DEF File
<1>7. line \in Line
  <2>1. files'[cur.file].lines \in Seq(Line) /\ files[cur.file].lines \in Seq(Line)
    BY <1>5 DEF File
  <2>. HIDE DEF line
  <2>2. line = files'[cur.file].lines[Len(files[cur.file].lines) + 1]
    BY <1>6, <2>1
  <2>3. Len(files[cur.file].lines) + 1 \in DOMAIN files'[cur.file].lines
    BY <1>6, <2>1
  <2>. QED  BY <2>1, <2>2, <2>3
<1>8. NamesOf(files'[cur.file]) = NamesOf(files[cur.file]) \cup
                                    (IF t.text = "call" THEN t.refs ELSE {})
  <2>1. line.text = t.text /\ line.refs = t.refs
    OBVIOUS
  <2>. HIDE DEF line
  <2>. QED  BY <1>5, <1>6, <1>7, <2>1, AppendedNames
<1>. HIDE DEF line, new
<1>9. \A k \in DOMAIN files \ {cur.file} : NamesOf(files'[k]) = NamesOf(files[k])
  BY <1>4
<1>. QED  BY <1>2, <1>4, <1>8, <1>9, CalledByFile, CalledByFileNext

LEMMA NotACall ==
  ASSUME NEW i
  PROVE  (Text(i)).text # "call"
BY DEF Text, PlainText, JumpText, SwitchText

NewFile(created) ==
  files' = Append(files, [created |-> created, lines |-> <<>>, closed |-> FALSE])

(* A file that was just created, or not, calls nothing.                    *)
LEMMA NewFileNames ==
  ASSUME TypeOK, NEW created, NewFile(created)
  PROVE  UNCHANGED CalledNames
<1>1. files \in Seq(File) /\ Len(files) \in Nat
  BY DEF TypeOK
<1>. DEFINE n == Len(files) + 1
<1>2. /\ DOMAIN files' = DOMAIN files \cup {n}
      /\ \A k \in DOMAIN files : files'[k] = files[k]
      /\ files'[n].lines = <<>>
  BY <1>1 DEF NewFile
<1>. HIDE DEF n
<1>3. NamesOf(files'[n]) = {}
  BY <1>2 DEF NamesOf
<1>4. \A k \in DOMAIN files : NamesOf(files'[k]) = NamesOf(files[k])
  BY <1>2
<1>. QED  BY <1>2, <1>3, <1>4, CalledByFile, CalledByFileNext

LEMMA ClosedNames ==
  ASSUME TypeOK, WriterInv, EmitDone
  PROVE  UNCHANGED CalledNames
<1>1. files \in Seq(File) /\ cur.file \in DOMAIN files
  BY RunningFile DEF TypeOK, EmitDone
<1>2. files[cur.file] \in File
  BY <1>1
<1>3. /\ DOMAIN files' = DOMAIN files
      /\ \A k \in DOMAIN files : files'[k].lines = files[k].lines
  BY <1>1, <1>2 DEF EmitDone, File
<1>4. \A k \in DOMAIN files : NamesOf(files'[k]) = NamesOf(files[k])
  BY <1>3 DEF NamesOf
<1>. QED  BY <1>3, <1>4, CalledByFile, CalledByFileNext

(* What a step adds to the names, with what it does about them.            *)
NewName(n) == CalledNames' = CalledNames \cup {n}

Writing == pc \notin {"enter", "done"}

ByVariable ==
  /\ Writing
  /\ \E a \in Addr : AddGlobalDWORDCallIntoCallAddressList(a)
                     /\ NewName(GdwName(a))

ByLabel ==
  /\ Writing
  /\ cur.dest \in Labelled
  /\ UNCHANGED gvdwCallAddress
  /\ NewName(FunctionName(cur.dest))

ByFunction ==
  /\ pc = "returned" /\ ret \in {0, 1}
  /\ UNCHANGED gvdwCallAddress
  /\ NewName(FunctionName(cur.dest))

NoName == UNCHANGED <<CalledNames, gvdwCallAddress>>

LEMMA FallbackNames ==
  ASSUME TypeOK, TypeOK', WriterInv, Writing, CallFallback
  PROVE  ByVariable \/ ByLabel
<1>1. CalledNames' = CalledNames \cup {FallbackName(cur.dest)}
  BY WrittenNames DEF Writing, CallFallback, CallText
<1>2. cur.dest \in Addr
  BY DEF TypeOK, Frame
<1>. QED
  BY <1>1, <1>2 DEF CallFallback, FallbackName, ByVariable, ByLabel, NewName

LEMMA NamesStep ==
  ASSUME TypeOK, TypeOK', WriterInv, [Next]_vars
  PROVE  NoName \/ ByVariable \/ ByLabel \/ ByFunction
<1>1. CASE Enter
  <2>1. CASE EnterRefused
    BY <2>1 DEF EnterRefused, lists, CalledNames, NoName
  <2>2. CASE EnterCreateFails
    BY <2>2, NewFileNames DEF EnterCreateFails, NewFile, NoName
  <2>3. CASE EnterOpen
    BY <2>3, NewFileNames DEF EnterOpen, NewFile, NoName
  <2>. QED  BY <1>1, <2>1, <2>2, <2>3 DEF Enter
<1>2. CASE Scan
  BY <1>2 DEF Scan, ScanPlain, ScanTable, ScanTableEntry, ScanTableEnd, ScanDone,
     lists, CalledNames, NoName
<1>3. CASE Emit
  <2>1. CASE EmitPlain
    BY <2>1, WrittenNames, NotACall DEF EmitPlain, NoName
  <2>2. CASE EmitCallBig
    <3>1. Callee(Here) \in Addr
      BY <2>2, HereType DEF EmitCallBig, IsFollowed
    <3>2. CalledNames' = CalledNames \cup {GdwName(Callee(Here))}
      BY <2>2, WrittenNames DEF EmitCallBig, CallText
    <3>. QED  BY <2>2, <3>1, <3>2 DEF EmitCallBig, ByVariable, NewName, Writing
  <2>3. CASE EmitCall
    BY <2>3 DEF EmitCall, lists, CalledNames, NoName
  <2>4. CASE EmitDone
    BY <2>4, ClosedNames DEF EmitDone, NoName
  <2>. QED  BY <1>3, <2>1, <2>2, <2>3, <2>4 DEF Emit
<1>4. CASE Query
  <2>1. CASE QueryFailed
    BY <2>1, FallbackNames DEF QueryFailed, Writing
  <2>2. CASE PostAnalysis \/ QueryKnown \/ QueryRetry
    <3>1. UNCHANGED <<files, gvdwCallAddress>>
      BY <2>2 DEF PostAnalysis, QueryKnown, QueryRetry, lists
    <3>. QED  BY <3>1 DEF CalledNames, NoName
  <2>. QED  BY <1>4, <2>1, <2>2 DEF Query
<1>5. CASE Trim
  BY <1>5 DEF Trim, TrimStep, TrimAtInt3, TrimWhole, Recurse, lists, CalledNames, NoName
<1>6. CASE Returned
  <2>1. CASE ReturnedWritten
    <3>1. CalledNames' = CalledNames \cup {FunctionName(cur.dest)}
      BY <2>1, WrittenNames DEF ReturnedWritten, CallText
    <3>. QED  BY <2>1, <3>1 DEF ReturnedWritten, ByFunction, NewName
  <2>2. CASE ReturnedRefused
    BY <2>2, FallbackNames DEF ReturnedRefused, Writing
  <2>. QED  BY <1>6, <2>1, <2>2 DEF Returned
<1>7. CASE UNCHANGED lists
  BY <1>7 DEF lists, CalledNames, NoName
<1>. QED
  BY <1>1, <1>2, <1>3, <1>4, <1>5, <1>6, <1>7
  DEF Next, Walk, Terminated, vars, lists

----------------------------------------------------------------------------
(* Every called name can be bound.                                         *)

(* A function whose file was created has its declaration saved.            *)
FilesDeclared ==
  \A k \in DOMAIN files :
    files[k].created => Declared(FunctionName(gvDisassembleFilePaths[k].start))

Anchored(r) ==
  /\ r.form = "gdw" => \E i \in DOMAIN gvdwCallAddress : gvdwCallAddress[i] = r.n
  /\ r.form = "SUB" =>
       \E i \in DOMAIN gvDisassembleFilePaths :
          /\ gvDisassembleFilePaths[i].start = r.n
          /\ files[i].created => Declared(r)

(* What the lists hold stays.                                              *)
LEMMA DeclarationStep ==
  ASSUME TypeOK, [Next]_vars
  PROVE  EnterOpen \/ UNCHANGED gvDisassembleFunctionDeclaration
<1>1. CASE Enter
  BY <1>1 DEF Enter, EnterRefused, EnterCreateFails, lists
<1>2. CASE Scan
  BY <1>2 DEF Scan, ScanPlain, ScanTable, ScanTableEntry, ScanTableEnd, ScanDone,
     lists
<1>3. CASE Emit
  BY <1>3 DEF Emit, EmitPlain, EmitCallBig, EmitCall, EmitDone, WriteInstr, lists
<1>4. CASE Query
  BY <1>4 DEF Query, PostAnalysis, QueryKnown, QueryRetry, QueryFailed,
     CallFallback, WriteInstr, lists
<1>5. CASE Trim
  BY <1>5 DEF Trim, TrimStep, TrimAtInt3, TrimWhole, Recurse, lists
<1>6. CASE Returned
  BY <1>6 DEF Returned, ReturnedWritten, ReturnedRefused, CallFallback, WriteInstr
<1>. QED
  BY <1>1, <1>2, <1>3, <1>4, <1>5, <1>6 DEF Next, Walk, Terminated, vars, lists

LEMMA DeclaredStays ==
  ASSUME TypeOK, [Next]_vars, NEW n, Declared(n)
  PROVE  Declared(n)'
<1>1. gvDisassembleFunctionDeclaration \in Seq(Name)
  BY DEF TypeOK
<1>2. CASE EnterOpen
  BY <1>1, <1>2 DEF EnterOpen, Declared
<1>3. CASE UNCHANGED gvDisassembleFunctionDeclaration
  BY <1>3 DEF Declared
<1>. QED  BY <1>2, <1>3, DeclarationStep

LEMMA VariableStays ==
  ASSUME TypeOK, [Next]_vars, NEW i \in DOMAIN gvdwCallAddress
  PROVE  i \in DOMAIN gvdwCallAddress' /\ gvdwCallAddress'[i] = gvdwCallAddress[i]
<1>1. gvdwCallAddress \in Seq(Addr)
  BY DEF TypeOK
<1>2. ASSUME NEW a \in Addr, AddGlobalDWORDCallIntoCallAddressList(a)
      PROVE  i \in DOMAIN gvdwCallAddress' /\ gvdwCallAddress'[i] = gvdwCallAddress[i]
  BY <1>1, <1>2 DEF AddGlobalDWORDCallIntoCallAddressList
<1>. QED  BY <1>2, CallAddressStep

LEMMA FileStays ==
  ASSUME TypeOK, WriterInv, [Next]_vars, NEW k \in DOMAIN files
  PROVE  /\ k \in DOMAIN gvDisassembleFilePaths'
         /\ gvDisassembleFilePaths'[k] = gvDisassembleFilePaths[k]
         /\ files'[k].created = files[k].created
<1>1. /\ files \in Seq(File) /\ gvDisassembleFilePaths \in Seq(Path)
      /\ Len(files) = Len(gvDisassembleFilePaths)
  BY DEF TypeOK, WriterInv
<1>2. k \in DOMAIN gvDisassembleFilePaths
  BY <1>1
<1>3. CASE SameFiles /\ UNCHANGED gvDisassembleFilePaths
  BY <1>1, <1>2, <1>3 DEF SameFiles
<1>4. ASSUME ListPath, NEW created, NewFile(created)
      PROVE  /\ k \in DOMAIN gvDisassembleFilePaths'
             /\ gvDisassembleFilePaths'[k] = gvDisassembleFilePaths[k]
             /\ files'[k].created = files[k].created
  BY <1>1, <1>2, <1>4 DEF ListPath, NewFile
<1>5. CASE EnterCreateFails \/ EnterOpen
  BY <1>4, <1>5 DEF EnterCreateFails, EnterOpen, NewFile
<1>6. CASE EmitDone
  <2>1. files[k] \in File
    BY <1>1
  <2>. QED  BY <1>1, <1>2, <1>6, <2>1 DEF EmitDone, File
<1>. QED  BY <1>3, <1>4, <1>5, <1>6, WriterStep

LEMMA AnchoredStays ==
  ASSUME TypeOK, WriterInv, [Next]_vars, NEW r, Anchored(r)
  PROVE  Anchored(r)'
<1>1. ASSUME r.form = "gdw"
      PROVE  \E i \in DOMAIN gvdwCallAddress' : gvdwCallAddress'[i] = r.n
  BY <1>1, VariableStays DEF Anchored
<1>2. ASSUME r.form = "SUB"
      PROVE  \E i \in DOMAIN gvDisassembleFilePaths' :
                /\ gvDisassembleFilePaths'[i].start = r.n
                /\ files'[i].created => Declared(r)'
  <2>1. PICK i \in DOMAIN gvDisassembleFilePaths :
               /\ gvDisassembleFilePaths[i].start = r.n
               /\ files[i].created => Declared(r)
    BY <1>2 DEF Anchored
  <2>2. i \in DOMAIN files
    BY DEF TypeOK, WriterInv
  <2>. QED  BY <2>1, <2>2, FileStays, DeclaredStays
<1>. QED  BY <1>1, <1>2 DEF Anchored

LEMMA NextFilesDeclared ==
  ASSUME TypeOK, TypeOK', WriterInv, FilesDeclared, [Next]_vars
  PROVE  FilesDeclared'
<1>1. /\ files \in Seq(File) /\ Len(files) \in Nat
      /\ gvDisassembleFilePaths \in Seq(Path)
      /\ gvDisassembleFunctionDeclaration \in Seq(Name)
      /\ Len(files) = Len(gvDisassembleFilePaths)
  BY DEF TypeOK, WriterInv
<1>2. ASSUME NEW k \in DOMAIN files, files'[k].created
      PROVE  \E j \in DOMAIN gvDisassembleFunctionDeclaration' :
               gvDisassembleFunctionDeclaration'[j] =
                 FunctionName(gvDisassembleFilePaths'[k].start)
  <2>1. PICK n : n = FunctionName(gvDisassembleFilePaths[k].start)
    OBVIOUS
  <2>2. Declared(n)
    BY <1>2, <2>1, FileStays DEF FilesDeclared
  <2>3. Declared(n)'
    BY <2>2, DeclaredStays
  <2>4. n = FunctionName(gvDisassembleFilePaths'[k].start)
    BY <2>1, FileStays
  <2>. QED  BY <2>3, <2>4 DEF Declared
<1>3. ASSUME NEW k \in DOMAIN files' \ DOMAIN files, files'[k].created
      PROVE  \E j \in DOMAIN gvDisassembleFunctionDeclaration' :
               gvDisassembleFunctionDeclaration'[j] =
                 FunctionName(gvDisassembleFilePaths'[k].start)
  <2>1. CASE EnterOpen
    <3>1. k = Len(files) + 1
      BY <1>1, <1>3, <2>1 DEF EnterOpen
    <3>2. gvDisassembleFilePaths'[k].start = cur.start
      BY <1>1, <2>1, <3>1 DEF EnterOpen, ListPath
    <3>. DEFINE j == Len(gvDisassembleFunctionDeclaration) + 1
    <3>3. /\ j \in DOMAIN gvDisassembleFunctionDeclaration'
          /\ gvDisassembleFunctionDeclaration'[j] = FunctionName(cur.start)
      BY <1>1, <2>1 DEF EnterOpen
    <3>. QED  BY <3>2, <3>3
  <2>2. CASE EnterCreateFails
    BY <1>1, <1>3, <2>2 DEF EnterCreateFails
  <2>3. CASE SameFiles
    BY <1>1, <1>3, <2>3 DEF SameFiles, TypeOK
  <2>4. CASE EmitDone
    BY <1>1, <1>3, <2>4 DEF EmitDone
  <2>. QED  BY <2>1, <2>2, <2>3, <2>4, WriterStep
<1>. QED  BY <1>2, <1>3 DEF FilesDeclared, Declared

LEMMA NextAnchored ==
  ASSUME Known, TypeOK', CalleeLinked, ReturnCodeHonest, FilesDeclared,
         CallsAnchored, [Next]_vars
  PROVE  CallsAnchored'
<1>1. TypeOK /\ WriterInv
  BY DEF Known, TypeInv
<1>2. ASSUME NEW r \in CalledNames PROVE Anchored(r)'
  <2>1. Anchored(r)
    BY <1>2 DEF CallsAnchored, Anchored
  <2>. QED  BY <1>1, <2>1, AnchoredStays
<1>3. SUFFICES ASSUME NEW r \in CalledNames' PROVE Anchored(r)'
  BY DEF CallsAnchored, Anchored
<1>4. CASE r \in CalledNames
  BY <1>2, <1>4
<1>5. ASSUME ByVariable, r \notin CalledNames PROVE Anchored(r)'
  <2>1. PICK a \in Addr : AddGlobalDWORDCallIntoCallAddressList(a)
                          /\ NewName(GdwName(a))
    BY <1>5 DEF ByVariable
  <2>2. r = GdwName(a)
    BY <1>3, <1>5, <2>1 DEF NewName
  <2>3. gvdwCallAddress \in Seq(Addr)
    BY <1>1 DEF TypeOK
  <2>4. \E i \in DOMAIN gvdwCallAddress' : gvdwCallAddress'[i] = a
    BY <2>1, <2>3 DEF AddGlobalDWORDCallIntoCallAddressList
  <2>. QED  BY <2>2, <2>4 DEF Anchored, GdwName
<1>6. ASSUME ByLabel, r \notin CalledNames PROVE Anchored(r)'
  <2>1. r = FunctionName(cur.dest) /\ cur.dest \in Labelled
    BY <1>3, <1>6 DEF ByLabel, NewName
  <2>. QED  BY <2>1 DEF Anchored, FunctionName
<1>7. ASSUME ByFunction, r \notin CalledNames PROVE Anchored(r)'
  <2>1. r = FunctionName(cur.dest)
    BY <1>3, <1>7 DEF ByFunction, NewName
  <2>2. Listed(cur.dest)
    BY <1>7 DEF ByFunction, ReturnCodeHonest
  <2>3. PICK i \in DOMAIN gvDisassembleFilePaths :
               gvDisassembleFilePaths[i].start = cur.dest
    BY <2>2 DEF Listed
  <2>4. i \in DOMAIN files
    BY <1>1 DEF TypeOK, WriterInv
  <2>5. files[i].created => Declared(r)
    BY <2>1, <2>3, <2>4 DEF FilesDeclared, Declared
  <2>6. Anchored(r)
    BY <2>1, <2>3, <2>5 DEF Anchored, FunctionName
  <2>. QED  BY <1>1, <2>6, AnchoredStays
<1>. QED  BY <1>1, <1>4, <1>5, <1>6, <1>7, NamesStep DEF NoName

(* Every name a CALL line uses can be bound, whatever calls whatever, how- *)
(* ever deep, and whichever files fail: a gdw name has its variable, and a *)
(* SUB name is that of a listed function, declared if its file was created *)
(* (grcasm.cpp:434-451, 502-585).                                          *)
THEOREM CallsBound == Spec => []CallsAnchored
<1>1. Init => /\ CalleeLinked /\ ReturnCodeHonest /\ FilesDeclared
              /\ CallsAnchored
  BY DEF Init, CalleeLinked, ReturnCodeHonest, FilesDeclared, CallsAnchored,
     CalledNames
<1>2. Known => TypeOK /\ WriterInv
  BY DEF Known, TypeInv
<1>3. TypeOK /\ CalleeLinked /\ [Next]_vars => CalleeLinked'
  BY NextCalleeLinked
<1>4. TypeOK /\ TypeOK' /\ WriterInv /\ FilesDeclared /\ [Next]_vars
        => FilesDeclared'
  BY NextFilesDeclared
<1>5. Known /\ TypeOK' /\ CalleeLinked /\ ReturnCodeHonest /\ FilesDeclared
        /\ CallsAnchored /\ [Next]_vars => CallsAnchored'
  BY NextAnchored
<1>. QED
  BY <1>1, <1>2, <1>3, <1>4, <1>5, NextHonest, KnownInvariant, TypeCorrect, PTL
  DEF Spec

----------------------------------------------------------------------------
(* Every called function is declared, when every file can be created.      *)

AllCreated == \A k \in DOMAIN files : files[k].created

LEMMA NextAllCreated ==
  ASSUME ~ CreateMayFail, TypeOK, TypeOK', WriterInv, AllCreated, [Next]_vars
  PROVE  AllCreated'
<1>1. files \in Seq(File) /\ files' \in Seq(File)
  BY DEF TypeOK
<1>2. CASE SameFiles
  BY <1>1, <1>2 DEF SameFiles, AllCreated
<1>3. ~ EnterCreateFails
  BY DEF EnterCreateFails
<1>4. CASE EnterOpen
  BY <1>1, <1>4 DEF EnterOpen, AllCreated
<1>5. CASE EmitDone
  <2>1. \A k \in DOMAIN files : files[k] \in File
    BY <1>1
  <2>. QED  BY <1>5, <2>1 DEF EmitDone, AllCreated, File
<1>. QED  BY <1>2, <1>3, <1>4, <1>5, WriterStep

(* When no file fails, every SUB name a CALL uses has its declaration in   *)
(* the header (grcasm.cpp:503), in every state, the file of the callee     *)
(* being finished or not.                                                  *)
THEOREM CalledDeclared ==
  ASSUME ~ CreateMayFail
  PROVE  Spec => []CallsDeclared
<1>1. Init => AllCreated
  BY DEF Init, AllCreated
<1>2. Known => TypeOK /\ WriterInv
  BY DEF Known, TypeInv
<1>3. TypeOK /\ TypeOK' /\ WriterInv /\ AllCreated /\ [Next]_vars => AllCreated'
  BY NextAllCreated
<1>4. WriterInv /\ TypeOK /\ AllCreated /\ CallsAnchored => CallsDeclared
  <2>. SUFFICES ASSUME WriterInv, TypeOK, AllCreated, CallsAnchored,
                       NEW r \in CalledNames, r.form = "SUB"
                PROVE  Declared(r)
    BY DEF CallsDeclared
  <2>1. PICK i \in DOMAIN gvDisassembleFilePaths : files[i].created => Declared(r)
    BY DEF CallsAnchored
  <2>2. i \in DOMAIN files
    BY DEF WriterInv, TypeOK
  <2>. QED  BY <2>1, <2>2 DEF AllCreated
<1>. QED
  BY <1>1, <1>2, <1>3, <1>4, KnownInvariant, CallsBound, TypeCorrect, PTL DEF Spec

----------------------------------------------------------------------------
(* The two sweeps of a function.                                           *)

LinesOf(o) == files[o.file].lines

(* Where the i-th open activation is: in its first sweep, in its second    *)
(* one, or at a CALL that it follows.                                      *)
Phase(i) ==
  IF i <= Len(stack) \/ pc \notin {"scan", "table", "emit"} THEN "call"
  ELSE IF pc = "emit" THEN "emit" ELSE "scan"

(* The activation's sweeps stand where they stood.                         *)
Alike(o, p) ==
  /\ p.start = o.start /\ p.end = o.end /\ p.file = o.file
  /\ p.ip = o.ip /\ p.instr = o.instr
  /\ p.jumps = o.jumps /\ p.jmpCount = o.jmpCount
  /\ p.first = o.first /\ p.second = o.second

Rests(i) ==
  /\ i \in DOMAIN Opened
  /\ Phase(i)' = Phase(i)
  /\ Phase(i) = "scan" => pc' = pc
  /\ Alike(Opened[i], Opened'[i])
  /\ LinesOf(Opened[i])' = LinesOf(Opened[i])

(* A line is written: of the instruction the sweep is at, or, once a CALL  *)
(* has been dealt with, of the one it was at.                              *)
Written(instr, t) ==
  /\ WriteInstr(instr, t)
  /\ \/ pc = "emit" /\ cur.ip <= cur.end /\ instr = Here
     \/ pc \in {"query", "returned"} /\ instr = cur.instr
  /\ \/ pc = "emit" /\ ~ IsFollowed(Here) /\ t = Text(Here)
     \/ \E a \in Addr : t \in {CallText(FunctionName(a)), CallText(GdwName(a))}

Writes == \E instr \in Instr : \E t : Written(instr, t)

(* The running activation goes on.                                         *)
Goes ==
  \/ EnterOpen \/ ScanPlain \/ ScanTable \/ ScanTableEntry \/ ScanTableEnd
  \/ ScanDone \/ EmitCall \/ Writes

LEMMA OpenedAt ==
  ASSUME TypeOK
  PROVE  /\ Len(stack) \in Nat
         /\ DOMAIN Opened = IF pc \in {"enter", "done"} THEN 1 .. Len(stack)
                            ELSE 1 .. Len(stack) + 1
         /\ \A i \in 1 .. Len(stack) : Opened[i] = stack[i]
         /\ pc \notin {"enter", "done"} => Opened[Len(stack) + 1] = cur
<1>1. stack \in Seq(Frame) /\ Len(stack) \in Nat
  BY DEF TypeOK
<1>. QED  BY <1>1 DEF Opened

LEMMA OpenedAtNext ==
  ASSUME TypeOK'
  PROVE  /\ Len(stack') \in Nat
         /\ DOMAIN Opened' = IF pc' \in {"enter", "done"} THEN 1 .. Len(stack')
                             ELSE 1 .. Len(stack') + 1
         /\ \A i \in 1 .. Len(stack') : Opened'[i] = stack'[i]
         /\ pc' \notin {"enter", "done"} => Opened'[Len(stack') + 1] = cur'
<1>1. stack' \in Seq(Frame) /\ Len(stack') \in Nat
  BY DEF TypeOK
<1>. QED  BY <1>1 DEF Opened

(* What writing does to the files: the running activation's file gets the  *)
(* line, no other one changes.                                             *)
NewLine(t) == [ip |-> cur.ip, labels |-> LabelsHere, text |-> t.text, refs |-> t.refs]

LEMMA WrittenFile ==
  ASSUME TypeOK, TypeOK', WriterInv, pc \notin {"enter", "done"},
         NEW i, NEW t, WriteInstr(i, t)
  PROVE  /\ DOMAIN files' = DOMAIN files
         /\ \A k \in DOMAIN files \ {cur.file} : files'[k] = files[k]
         /\ files'[cur.file].closed = files[cur.file].closed
         /\ files[cur.file].lines \in Seq(Line)
         /\ files'[cur.file].lines \in Seq(Line)
         /\ files'[cur.file].lines = Append(files[cur.file].lines, NewLine(t))
<1>. DEFINE line == [ip |-> cur.ip, labels |-> LabelsHere,
                     text |-> t.text, refs |-> t.refs]
            new == [files[cur.file] EXCEPT !.lines = Append(@, line)]
<1>1. files \in Seq(File) /\ files' \in Seq(File)
  BY DEF TypeOK
<1>2. cur.file \in DOMAIN files
  BY RunningFile
<1>3. files' = [files EXCEPT ![cur.file] = new]
  BY DEF WriteInstr
<1>4. /\ DOMAIN files' = DOMAIN files
      /\ \A k \in DOMAIN files \ {cur.file} : files'[k] = files[k]
      /\ files'[cur.file] = new
  <2>. HIDE DEF new
  <2>. QED  BY <1>1, <1>2, <1>3
<1>5. files[cur.file] \in File /\ files'[cur.file] \in File
  BY <1>1, <1>2, <1>4
<1>6. /\ files'[cur.file].lines = Append(files[cur.file].lines, line)
      /\ files'[cur.file].closed = files[cur.file].closed
  BY <1>4, <1>5 DEF File
<1>7. line = NewLine(t)
  BY DEF NewLine
<1>. HIDE DEF line, new
<1>. QED  BY <1>4, <1>5, <1>6, <1>7 DEF File

(* The writers of a file are one, so what the running activation does is   *)
(* not seen in the files of the suspended ones.                            *)
LEMMA SuspendedApart ==
  ASSUME TypeOK, WriterInv, pc \notin {"enter", "done"}, NEW i \in 1 .. Len(stack)
  PROVE  stack[i].file \in DOMAIN files \ {cur.file}
<1>1. i \in DOMAIN Opened /\ Len(stack) + 1 \in DOMAIN Opened /\ i # Len(stack) + 1
  BY OpenedAt
<1>2. Opened[i] = stack[i] /\ Opened[Len(stack) + 1] = cur
  BY OpenedAt
<1>. QED  BY <1>1, <1>2 DEF WriterInv, OneWriterPerFile

(* A step that leaves the files and moves only in the call stack, or does  *)
(* not move in the sweeps.                                                 *)
LEMMA RestsInStack ==
  ASSUME TypeOK, TypeOK', WriterInv, Opened' = Opened,
         \/ pc' \in {"enter", "done", "returned"} /\ pc \in {"enter", "trim"}
         \/ pc' = pc /\ stack' = stack,
         \A k \in DOMAIN files : files'[k].lines = files[k].lines,
         NEW i \in DOMAIN Opened'
  PROVE  Rests(i)
<1>1. i \in DOMAIN Opened /\ Opened[i].file \in DOMAIN files
  BY DEF WriterInv, OneWriterPerFile
<1>2. LinesOf(Opened[i])' = LinesOf(Opened[i])
  BY <1>1 DEF LinesOf
<1>3. Phase(i)' = Phase(i) /\ (Phase(i) = "scan" => pc' = pc)
  <2>1. CASE pc' = pc /\ stack' = stack
    BY <2>1 DEF Phase
  <2>2. CASE pc' \in {"enter", "done", "returned"} /\ pc \in {"enter", "trim"}
    BY <2>2 DEF Phase
  <2>. QED  BY <2>1, <2>2
<1>. QED  BY <1>1, <1>2, <1>3 DEF Rests, Alike
LEMMA SuspendedRests ==
  ASSUME TypeOK, TypeOK', WriterInv, UNCHANGED stack, NEW i \in 1 .. Len(stack),
         pc # "done",
         pc \notin {"enter", "done"} =>
           \A k \in DOMAIN files \ {cur.file} : files'[k].lines = files[k].lines,
         pc = "enter" => \A k \in DOMAIN files : files'[k].lines = files[k].lines
  PROVE  Rests(i)
<1>1. /\ i \in DOMAIN Opened /\ Opened[i] = stack[i]
      /\ Opened'[i] = stack[i]
  BY OpenedAt, OpenedAtNext
<1>2. Opened[i].file \in DOMAIN files
  BY <1>1 DEF WriterInv, OneWriterPerFile
<1>3. CASE pc \notin {"enter", "done"}
  <2>1. LinesOf(Opened[i])' = LinesOf(Opened[i])
    BY <1>1, <1>3, SuspendedApart DEF LinesOf
  <2>. QED  BY <1>1, <2>1 DEF Rests, Alike, Phase
<1>4. CASE pc = "enter"
  <2>1. LinesOf(Opened[i])' = LinesOf(Opened[i])
    BY <1>1, <1>2, <1>4 DEF LinesOf
  <2>. QED  BY <1>1, <2>1 DEF Rests, Alike, Phase
<1>. QED  BY <1>3, <1>4
(* The running activation goes on; the others rest.                        *)
Runs(i) ==
  /\ i = Len(stack) + 1
  /\ UNCHANGED stack
  /\ pc \notin {"enter", "done"} => i \in DOMAIN Opened /\ Opened[i] = cur
  /\ pc' \notin {"enter", "done"}
  /\ Opened'[i] = cur'
  /\ Goes

LEMMA GoesSteps ==
  ASSUME TypeOK, TypeOK', WriterInv, Goes, NEW i \in DOMAIN Opened'
  PROVE  Rests(i) \/ Runs(i)
<1>1. /\ UNCHANGED stack
      /\ pc' \notin {"enter", "done"}
      /\ pc # "done"
  BY DEF Goes, EnterOpen, ScanPlain, ScanTable, ScanTableEntry, ScanTableEnd,
     ScanDone, EmitCall, Writes, Written, WriteInstr
<1>2. DOMAIN Opened' = 1 .. Len(stack) + 1 /\ Opened'[Len(stack) + 1] = cur'
  BY <1>1, OpenedAtNext
<1>3. CASE i = Len(stack) + 1
  <2>1. pc # "enter" => i \in DOMAIN Opened /\ Opened[i] = cur
    BY <1>1, <1>3, OpenedAt
  <2>. QED  BY <1>1, <1>2, <1>3, <2>1 DEF Runs
<1>4. CASE i # Len(stack) + 1
  <2>1. i \in 1 .. Len(stack)
    BY <1>2, <1>4, OpenedAt
  <2>2. pc = "enter" => \A k \in DOMAIN files : files'[k].lines = files[k].lines
    <3>1. pc = "enter" => EnterOpen
      BY DEF Goes, ScanPlain, ScanTable, ScanTableEntry, ScanTableEnd, ScanDone,
         EmitCall, Writes, Written
    <3>2. files \in Seq(File)
      BY DEF TypeOK
    <3>. QED  BY <3>1, <3>2 DEF EnterOpen
  <2>3. ASSUME pc # "enter", NEW k \in DOMAIN files \ {cur.file}
        PROVE  files'[k].lines = files[k].lines
    <3>1. CASE Writes
      BY <1>1, <2>3, <3>1, WrittenFile DEF Writes, Written
    <3>2. CASE ~ Writes
      BY <2>3, <3>2 DEF Goes, EnterOpen, ScanPlain, ScanTable, ScanTableEntry,
         ScanTableEnd, ScanDone, EmitCall, lists
    <3>. QED  BY <3>1, <3>2
  <2>. QED  BY <1>1, <2>1, <2>2, <2>3, SuspendedRests
<1>. QED  BY <1>3, <1>4

(* An activation that only deals with a CALL, its sweeps resting.          *)
LEMMA CallRests ==
  ASSUME TypeOK, TypeOK', WriterInv,
         pc \in {"post", "query", "trim"}, pc' \in {"post", "query", "trim"},
         UNCHANGED <<stack, lists>>, Alike(cur, cur'), NEW i \in DOMAIN Opened'
  PROVE  Rests(i)
<1>1. DOMAIN Opened' = 1 .. Len(stack) + 1 /\ DOMAIN Opened = 1 .. Len(stack) + 1
  BY OpenedAt, OpenedAtNext
<1>2. CASE i = Len(stack) + 1
  <2>1. Opened[i] = cur /\ Opened'[i] = cur'
    BY <1>2, OpenedAt, OpenedAtNext
  <2>2. LinesOf(Opened[i])' = LinesOf(Opened[i])
    BY <2>1 DEF LinesOf, lists, Alike
  <2>. QED  BY <1>1, <2>1, <2>2 DEF Rests, Phase
<1>3. CASE i # Len(stack) + 1
  <2>1. i \in 1 .. Len(stack)
    BY <1>1, <1>3, OpenedAt
  <2>. QED  BY <2>1, SuspendedRests DEF lists
<1>. QED  BY <1>2, <1>3

LEMMA FallbackWrites ==
  ASSUME TypeOK, pc \in {"query", "returned"}, CallFallback
  PROVE  Writes
<1>1. cur.dest \in Addr /\ cur.instr \in Instr
  BY DEF TypeOK, Frame
<1>2. PICK t : t = CallText(FallbackName(cur.dest))
  OBVIOUS
<1>3. t \in {CallText(FunctionName(cur.dest)), CallText(GdwName(cur.dest))}
  BY <1>2 DEF FallbackName
<1>4. WriteInstr(cur.instr, t)
  BY <1>2 DEF CallFallback
<1>. QED  BY <1>1, <1>3, <1>4 DEF Writes, Written

(* Every step, as the sweeps of one open activation see it.                *)
LEMMA SweepStep ==
  ASSUME TypeOK, TypeOK', WriterInv, [Next]_vars, NEW i \in DOMAIN Opened'
  PROVE  Rests(i) \/ Runs(i)
<1>. USE DEF Rests
<1>1. cur \in Frame /\ cur' \in Frame /\ Here \in Instr
  BY HereType DEF TypeOK
<1>2. CASE Enter
  <2>1. CASE EnterRefused
    <3>1. Opened' = Opened
      BY <2>1, ReturnOpened DEF EnterRefused, Opened
    <3>2. pc = "enter" /\ pc' \in {"done", "returned"} /\ files' = files
      BY <2>1 DEF EnterRefused, Return, lists
    <3>. QED  BY <3>1, <3>2, RestsInStack
  <2>2. CASE EnterCreateFails
    <3>1. Opened' = Opened
      BY <2>2, ReturnOpened DEF EnterCreateFails, Opened
    <3>2. pc = "enter" /\ pc' \in {"done", "returned"}
      BY <2>2 DEF EnterCreateFails, Return
    <3>3. files \in Seq(File)
      BY DEF TypeOK
    <3>4. \A k \in DOMAIN files : files'[k].lines = files[k].lines
      BY <2>2, <3>3 DEF EnterCreateFails
    <3>. QED  BY <3>1, <3>2, <3>4, RestsInStack
  <2>. QED  BY <1>2, <2>1, <2>2, GoesSteps DEF Enter, Goes
<1>3. CASE Scan
  BY <1>3, GoesSteps DEF Scan, Goes
<1>4. CASE Emit
  <2>1. CASE EmitPlain
    <3>1. Written(Here, Text(Here))
      BY <2>1 DEF EmitPlain, Written
    <3>. QED  BY <1>1, <3>1, GoesSteps DEF Goes, Writes
  <2>2. CASE EmitCallBig
    <3>1. Callee(Here) \in Addr
      BY <2>2, HereType DEF EmitCallBig, IsFollowed
    <3>2. Written(Here, CallText(GdwName(Callee(Here))))
      BY <2>2, <3>1 DEF EmitCallBig, Written
    <3>. QED  BY <1>1, <3>2, GoesSteps DEF Goes, Writes
  <2>3. CASE EmitCall
    BY <2>3, GoesSteps DEF Goes
  <2>4. CASE EmitDone
    <3>2. Opened' = stack /\ pc = "emit" /\ pc' \in {"done", "returned"}
      BY <2>4, ReturnOpened DEF EmitDone, Return
    <3>3. i \in 1 .. Len(stack) /\ Opened[i] = stack[i] /\ i \in DOMAIN Opened
      BY <3>2, OpenedAt DEF TypeOK
    <3>4. stack[i].file \in DOMAIN files \ {cur.file}
      BY <3>2, <3>3, SuspendedApart
    <3>5. files'[stack[i].file] = files[stack[i].file]
      BY <2>4, <3>4 DEF EmitDone
    <3>6. LinesOf(Opened[i])' = LinesOf(Opened[i])
      BY <3>2, <3>3, <3>5 DEF LinesOf
    <3>. QED  BY <3>2, <3>3, <3>6 DEF Alike, Phase
  <2>. QED  BY <1>4, <2>1, <2>2, <2>3, <2>4 DEF Emit
<1>5. CASE Query
  <2>1. CASE QueryFailed
    <3>1. Writes
      BY <2>1, FallbackWrites DEF QueryFailed
    <3>. QED  BY <3>1, GoesSteps DEF Goes
  <2>2. CASE PostAnalysis \/ QueryKnown \/ QueryRetry
    <3>1. /\ UNCHANGED <<stack, lists>>
          /\ pc \in {"post", "query"} /\ pc' \in {"post", "query", "trim"}
      BY <2>2 DEF PostAnalysis, QueryKnown, QueryRetry
    <3>2. Alike(cur, cur')
      BY <1>1, <2>2 DEF PostAnalysis, QueryKnown, QueryRetry, Frame, Alike
    <3>. QED  BY <3>1, <3>2, CallRests
  <2>. QED  BY <1>5, <2>1, <2>2 DEF Query
<1>6. CASE Trim
  <2>1. CASE TrimStep
    <3>1. Alike(cur, cur')
      BY <1>1, <2>1 DEF TrimStep, Frame, Alike
    <3>. QED  BY <2>1, <3>1, CallRests DEF TrimStep
  <2>2. ASSUME pc = "trim", NEW end, Recurse(end) PROVE Rests(i)
    <3>1. Opened' = Opened
      BY <2>2 DEF Recurse, Opened
    <3>. QED  BY <2>2, <3>1, RestsInStack DEF Recurse, lists
  <2>. QED  BY <1>6, <2>1, <2>2 DEF Trim, TrimAtInt3, TrimWhole
<1>7. CASE Returned
  <2>1. CASE ReturnedWritten
    <3>1. cur.dest \in Addr /\ cur.instr \in Instr
      BY <1>1 DEF Frame
    <3>2. Written(cur.instr, CallText(FunctionName(cur.dest)))
      BY <2>1, <3>1 DEF ReturnedWritten, Written
    <3>. QED  BY <3>1, <3>2, GoesSteps DEF Goes, Writes
  <2>2. CASE ReturnedRefused
    <3>1. Writes
      BY <2>2, FallbackWrites DEF ReturnedRefused
    <3>. QED  BY <3>1, GoesSteps DEF Goes
  <2>. QED  BY <1>7, <2>1, <2>2 DEF Returned
<1>8. CASE UNCHANGED <<walk, lists>>
  <2>1. Opened' = Opened /\ UNCHANGED <<pc, stack, files>>
    BY <1>8 DEF walk, lists, Opened
  <2>. QED  BY <2>1, RestsInStack
<1>. QED
  BY <1>2, <1>3, <1>4, <1>5, <1>6, <1>7, <1>8
  DEF Next, Walk, Terminated, vars, walk, lists
----------------------------------------------------------------------------
(* Closed files.                                                           *)

(* Lines are only written by an activation into its own file.              *)
LEMMA LinesStep ==
  ASSUME TypeOK, TypeOK', WriterInv, [Next]_vars, NEW k \in DOMAIN files
  PROVE  \/ files'[k].lines = files[k].lines
         \/ Writes /\ pc \notin {"enter", "done"} /\ k = cur.file
<1>1. files \in Seq(File) /\ files[k] \in File
  BY DEF TypeOK
<1>2. CASE Writes
  <2>1. pc \notin {"enter", "done"}
    BY <1>2 DEF Writes, Written
  <2>. QED  BY <1>2, <2>1, WrittenFile DEF Writes, Written
<1>3. CASE Enter
  <2>1. CASE EnterRefused
    BY <2>1 DEF EnterRefused, lists
  <2>2. ASSUME NEW e, files' = Append(files, e) PROVE files'[k] = files[k]
    BY <1>1, <2>2
  <2>3. CASE EnterCreateFails
    BY <2>2, <2>3 DEF EnterCreateFails
  <2>4. CASE EnterOpen
    BY <2>2, <2>4 DEF EnterOpen
  <2>. QED  BY <1>3, <2>1, <2>3, <2>4 DEF Enter
<1>4. CASE Scan
  BY <1>4 DEF Scan, ScanPlain, ScanTable, ScanTableEntry, ScanTableEnd, ScanDone,
     lists
<1>5. Here \in Instr /\ cur.instr \in Instr /\ cur.dest \in Addr
  BY HereType DEF TypeOK, Frame
<1>6. CASE Emit
  <2>1. CASE EmitPlain
    BY <1>2, <1>5, <2>1 DEF EmitPlain, Written, Writes
  <2>2. CASE EmitCallBig
    <3>1. Callee(Here) \in Addr
      BY <2>2, HereType DEF EmitCallBig, IsFollowed
    <3>2. Written(Here, CallText(GdwName(Callee(Here))))
      BY <2>2, <3>1 DEF EmitCallBig, Written
    <3>. QED  BY <1>2, <1>5, <3>2 DEF Writes
  <2>3. CASE EmitCall
    BY <2>3 DEF EmitCall, lists
  <2>4. CASE EmitDone
    BY <1>1, <2>4 DEF EmitDone, File
  <2>. QED  BY <1>6, <2>1, <2>2, <2>3, <2>4 DEF Emit
<1>7. CASE Query
  BY <1>2, <1>7, FallbackWrites DEF Query, PostAnalysis, QueryKnown, QueryRetry,
     QueryFailed, lists
<1>8. CASE Trim
  BY <1>8 DEF Trim, TrimStep, TrimAtInt3, TrimWhole, Recurse, lists
<1>9. CASE Returned
  <2>1. CASE ReturnedWritten
    <3>1. Written(cur.instr, CallText(FunctionName(cur.dest)))
      BY <1>5, <2>1 DEF ReturnedWritten, Written
    <3>. QED  BY <1>2, <1>5, <3>1 DEF Writes
  <2>2. CASE ReturnedRefused
    BY <1>2, <2>2, FallbackWrites DEF ReturnedRefused
  <2>. QED  BY <1>9, <2>1, <2>2 DEF Returned
<1>10. CASE UNCHANGED lists
  BY <1>10 DEF lists
<1>. QED
  BY <1>3, <1>4, <1>6, <1>7, <1>8, <1>9, <1>10
  DEF Next, Walk, Terminated, vars, lists

(* A closed file was closed before, or is closed by the activation that    *)
(* wrote it, at the end of its second sweep; its lines are what they were. *)
LEMMA ClosedStep ==
  ASSUME TypeOK, TypeOK', WriterInv, [Next]_vars,
         NEW k \in DOMAIN files', files'[k].closed
  PROVE  /\ k \in DOMAIN files
         /\ files'[k].lines = files[k].lines
         /\ gvDisassembleFilePaths'[k] = gvDisassembleFilePaths[k]
         /\ \/ files[k].closed
            \/ EmitDone /\ k = cur.file
<1>1. files \in Seq(File) /\ files' \in Seq(File)
  BY DEF TypeOK
<1>2. k \in DOMAIN files /\ (files[k].closed \/ (EmitDone /\ k = cur.file))
  <2>. DEFINE n == Len(files)
  <2>0. /\ DOMAIN files = 1 .. n /\ DOMAIN files' = 1 .. Len(files') /\ n \in Nat
    BY <1>1
  <2>1. CASE SameFiles
    BY <2>0, <2>1 DEF SameFiles
  <2>2. CASE EnterOpen \/ EnterCreateFails
    <3>1. PICK f : files' = Append(files, f) /\ ~ f.closed
      BY <2>2 DEF EnterOpen, EnterCreateFails
    <3>2. /\ Len(files') = n + 1 /\ files'[n + 1] = f
          /\ \A j \in 1 .. n : files'[j] = files[j]
      BY <1>1, <3>1
    <3>3. k # n + 1
      BY <3>1, <3>2
    <3>. QED  BY <2>0, <3>2, <3>3
  <2>3. CASE EmitDone
    <3>1. files' = [files EXCEPT ![cur.file].closed = TRUE]
      BY <2>3 DEF EmitDone
    <3>2. DOMAIN files' = DOMAIN files /\ (k # cur.file => files'[k] = files[k])
      BY <3>1
    <3>. QED  BY <2>3, <3>2
  <2>. QED  BY <2>1, <2>2, <2>3, WriterStep
<1>3. gvDisassembleFilePaths'[k] = gvDisassembleFilePaths[k]
  BY <1>2, FileStays
<1>4. files'[k].lines = files[k].lines
  <2>1. ASSUME Writes, k = cur.file, pc \notin {"enter", "done"} PROVE FALSE
    <3>1. Len(stack) + 1 \in DOMAIN Opened /\ Opened[Len(stack) + 1] = cur
      BY <2>1, OpenedAt
    <3>2. ~ files[k].closed
      BY <2>1, <3>1 DEF WriterInv, OneWriterPerFile
    <3>3. pc = "emit" /\ cur.end < cur.ip
      BY <1>2, <3>2 DEF EmitDone
    <3>4. cur.ip <= cur.end
      BY <2>1, <3>3 DEF Writes, Written
    <3>5. cur.ip \in Nat /\ cur.end \in Nat
      BY DEF TypeOK, Frame, Addr
    <3>. QED  BY <3>3, <3>4, <3>5
  <2>. QED  BY <1>2, <2>1, LinesStep
<1>. QED  BY <1>2, <1>3, <1>4
----------------------------------------------------------------------------
(* Finished files are in order.                                            *)

(* The path listed for an activation's file has the activation's end, too. *)
EndsOwn ==
  \A i \in DOMAIN Opened : gvDisassembleFilePaths[Opened[i].file].end = Opened[i].end

(* What no step of a running activation changes.                           *)
LEMMA RunsOn ==
  ASSUME TypeOK, NEW i, Runs(i), ~ EnterOpen
  PROVE  /\ cur'.file = cur.file /\ cur'.start = cur.start /\ cur'.end = cur.end
         /\ cur'.instr = cur.instr \/ pc # "emit" \/ EmitCall
         /\ pc \notin {"enter", "done"}
<1>1. cur \in Frame
  BY DEF TypeOK
<1>2. CASE Writes
  BY <1>1, <1>2 DEF Writes, Written, WriteInstr, Frame
<1>3. CASE ~ Writes
  BY <1>1, <1>3 DEF Runs, Goes, ScanPlain, ScanTable, ScanTableEntry, ScanTableEnd,
     ScanDone, EmitCall, Frame
<1>. QED  BY <1>2, <1>3

LEMMA NextEndsOwn ==
  ASSUME TypeOK, TypeOK', WriterInv, EndsOwn, [Next]_vars
  PROVE  EndsOwn'
<1>. SUFFICES ASSUME NEW i \in DOMAIN Opened'
              PROVE  gvDisassembleFilePaths'[Opened'[i].file].end = Opened'[i].end
  BY DEF EndsOwn
<1>1. CASE Rests(i)
  BY <1>1, FileStays DEF Rests, Alike, EndsOwn, WriterInv, OneWriterPerFile
<1>2. CASE Runs(i) /\ EnterOpen
  <2>1. /\ gvDisassembleFilePaths \in Seq(Path) /\ cur \in Frame
        /\ Opened'[i] = cur'
    BY <1>2 DEF TypeOK, Runs
  <2>. QED  BY <1>2, <2>1 DEF EnterOpen, ListPath, Frame
<1>3. CASE Runs(i) /\ ~ EnterOpen
  <2>1. /\ Opened[i] = cur /\ Opened'[i] = cur' /\ i \in DOMAIN Opened
        /\ cur'.file = cur.file /\ cur'.end = cur.end
    BY <1>3, RunsOn DEF Runs
  <2>. QED  BY <2>1, FileStays DEF EndsOwn, WriterInv, OneWriterPerFile
<1>. QED  BY <1>1, <1>2, <1>3, SweepStep

(* The lines L of a sweep that is at o.ip: from the start on, each address *)
(* after the one before it.                                                *)
Swept(L, o) ==
  /\ L = <<>> => o.ip = o.start
  /\ L # <<>> => /\ L[1].ip = o.start
                 /\ L[Len(L)].ip < o.ip
                 /\ L[Len(L)].ip <= o.end
  /\ \A k \in 1 .. Len(L) - 1 : L[k].ip < L[k + 1].ip

(* The debuggee is gone, and the sweep will not move again.                *)
Stuck(o) ==
  ~ image.alive /\ DbgDisasmAt(image, o.ip).size = 0 /\ o.ip <= o.end

InOrder(i) ==
  LET o == Opened[i]
      L == LinesOf(Opened[i])
  IN  /\ Phase(i) = "scan" => L = <<>>
      /\ Phase(i) = "emit" => Swept(L, o) \/ Stuck(o)
      /\ Phase(i) = "call" => Swept(L, o) /\ o.ip <= o.end /\ o.instr.size # 0

OrderInv == EndsOwn /\ \A i \in DOMAIN Opened : InOrder(i)

(* Only the debuggee's end keeps a sweep where it is.                      *)
LEMMA SizeZero ==
  ASSUME NEW m \in Images, NEW a \in Addr, DbgDisasmAt(m, a).size = 0
  PROVE  ~ m.alive /\ DbgDisasmAt(m, a).op = "plain"
BY DebuggerConstants DEF DbgDisasmAt, IsImage, Undecoded, Zeroed

(* The walk changes nothing of the debuggee.                               *)
LEMMA ImageStep ==
  ASSUME [Next]_vars
  PROVE  Patch \/ image' = image
<1>1. CASE Enter
  BY <1>1 DEF Enter, EnterRefused, EnterCreateFails, EnterOpen, debugger
<1>2. CASE Scan
  BY <1>2 DEF Scan, ScanPlain, ScanTable, ScanTableEntry, ScanTableEnd, ScanDone,
     debugger
<1>3. CASE Emit
  BY <1>3 DEF Emit, EmitPlain, EmitCallBig, EmitCall, EmitDone, WriteInstr, debugger
<1>4. CASE Query
  BY <1>4 DEF Query, PostAnalysis, DbgCmdExec, QueryKnown, QueryRetry, QueryFailed,
     CallFallback, WriteInstr, debugger
<1>5. CASE Trim
  BY <1>5 DEF Trim, TrimStep, TrimAtInt3, TrimWhole, Recurse, debugger
<1>6. CASE Returned
  BY <1>6 DEF Returned, ReturnedWritten, ReturnedRefused, CallFallback, WriteInstr,
     debugger
<1>7. CASE DebuggerNext
  BY <1>7 DEF DebuggerNext, Analyse
<1>8. CASE UNCHANGED vars
  BY <1>8 DEF vars, debugger
<1>. QED
  BY <1>1, <1>2, <1>3, <1>4, <1>5, <1>6, <1>7, <1>8 DEF Next, Walk, Terminated

LEMMA GoneStays ==
  ASSUME [Next]_vars, ~ image.alive
  PROVE  image' = image
BY ImageStep DEF Patch

LEMMA FixedStays ==
  ASSUME MaxPatches = 0, TypeOK, [Next]_vars
  PROVE  image' = image
<1>1. patches \in Nat
  BY DEF TypeOK, DebuggerTypeOK
<1>. QED  BY <1>1, ImageStep DEF Patch

LEMMA SweptOn ==
  ASSUME NEW L \in Seq(Line), NEW line \in Line, NEW o \in Frame, NEW q \in Frame,
         Swept(L, o), o.ip <= o.end, line.ip = o.ip,
         q.start = o.start, q.end = o.end, o.ip < q.ip
  PROVE  Swept(Append(L, line), q)
<1>. DEFINE M == Append(L, line)
<1>1. /\ Len(L) \in Nat /\ Len(M) = Len(L) + 1 /\ M # <<>>
      /\ M[Len(L) + 1] = line
      /\ \A k \in 1 .. Len(L) : M[k] = L[k] /\ L[k] \in Line
  OBVIOUS
<1>. HIDE DEF M
<1>2. M[1].ip = q.start
  BY <1>1 DEF Swept
<1>3. \A k \in 1 .. Len(M) - 1 : M[k].ip < M[k + 1].ip
  <2>. SUFFICES ASSUME NEW k \in 1 .. Len(L) PROVE M[k].ip < M[k + 1].ip
    BY <1>1
  <2>1. CASE k = Len(L)
    BY <1>1, <2>1 DEF Swept
  <2>2. CASE k # Len(L)
    <3>1. k \in 1 .. Len(L) - 1 /\ k + 1 \in 1 .. Len(L)
      BY <1>1, <2>2
    <3>. QED  BY <1>1, <3>1 DEF Swept
  <2>. QED  BY <2>1, <2>2
<1>. QED  BY <1>1, <1>2, <1>3 DEF Swept, M
(* What the running activation's file holds after a written line.          *)
LEMMA RunsWriting ==
  ASSUME TypeOK, TypeOK', WriterInv, NEW i, Runs(i), Writes
  PROVE  \E instr \in Instr : \E t :
           /\ Written(instr, t)
           /\ LinesOf(cur) \in Seq(Line)
           /\ NewLine(t) \in Line
           /\ LinesOf(Opened[i])' = Append(LinesOf(cur), NewLine(t))
           /\ cur' \in Frame /\ cur'.ip = cur.ip + instr.size
           /\ cur'.jumps = cur.jumps /\ pc' = "emit"
<1>1. PICK instr \in Instr : \E t : Written(instr, t)
  BY DEF Writes
<1>2. PICK t : Written(instr, t)
  BY <1>1
<1>3. /\ pc \notin {"enter", "done"} /\ cur \in Frame /\ cur' \in Frame
      /\ WriteInstr(instr, t)
  BY <1>2 DEF Written, TypeOK
<1>4. /\ cur'.ip = cur.ip + instr.size /\ cur'.file = cur.file
      /\ cur'.jumps = cur.jumps /\ pc' = "emit"
  BY <1>3 DEF WriteInstr, Frame
<1>5. /\ files[cur.file].lines \in Seq(Line)
      /\ files'[cur.file].lines \in Seq(Line)
      /\ files'[cur.file].lines = Append(files[cur.file].lines, NewLine(t))
  BY <1>3, WrittenFile
<1>6. NewLine(t) \in Line
  <2>1. PICK x : x = NewLine(t)
    OBVIOUS
  <2>2. /\ Len(files[cur.file].lines) + 1 \in DOMAIN files'[cur.file].lines
        /\ x = files'[cur.file].lines[Len(files[cur.file].lines) + 1]
    BY <1>5, <2>1
  <2>. QED  BY <1>5, <2>1, <2>2
<1>. QED  BY <1>2, <1>3, <1>4, <1>5, <1>6 DEF LinesOf, Runs

LEMMA NextInOrder ==
  ASSUME TypeOK, TypeOK', WriterInv, OrderInv, [Next]_vars, NEW i \in DOMAIN Opened'
  PROVE  InOrder(i)'
<1>1. cur \in Frame /\ cur' \in Frame /\ Here \in Instr /\ image \in Images
  BY HereType DEF TypeOK, DebuggerTypeOK
<1>2. CASE Rests(i)
  <2>1. InOrder(i) /\ Alike(Opened[i], Opened'[i]) /\ Phase(i)' = Phase(i)
        /\ LinesOf(Opened[i])' = LinesOf(Opened[i])
    BY <1>2 DEF Rests, OrderInv
  <2>2. LinesOf(Opened[i])' = LinesOf(Opened[i])
    BY <2>1 DEF LinesOf, Alike
  <2>3. Stuck(Opened[i]) => Stuck(Opened[i])'
    BY <2>1, GoneStays DEF Stuck, Alike
  <2>. QED  BY <2>1, <2>2, <2>3 DEF InOrder, Swept, Alike
<1>3. CASE Runs(i) /\ EnterOpen
  <2>1. LinesOf(Opened[i])' = <<>>
    <3>1. files \in Seq(File) /\ Opened'[i] = cur' /\ cur'.file = Len(files) + 1
      BY <1>1, <1>3 DEF TypeOK, Runs, EnterOpen, WriterInv, Frame
    <3>. QED  BY <1>3, <3>1 DEF LinesOf, EnterOpen
  <2>2. Phase(i)' = "scan"
    BY <1>3, OpenedAt DEF Runs, EnterOpen, Phase
  <2>. QED  BY <2>1, <2>2 DEF InOrder
<1>4. ASSUME Runs(i), ~ EnterOpen
      PROVE  /\ InOrder(i) /\ Opened[i] = cur /\ Opened'[i] = cur'
             /\ cur'.file = cur.file /\ cur'.start = cur.start /\ cur'.end = cur.end
             /\ ~ (i <= Len(stack)) /\ ~ (i <= Len(stack'))
  BY <1>4, RunsOn, OpenedAt DEF Runs, OrderInv
<1>5. CASE Runs(i) /\ Writes
  <2>1. ~ EnterOpen /\ ~ (pc = "enter")
    BY <1>5 DEF Writes, Written, EnterOpen
  <2>2. PICK instr \in Instr : \E t :
           /\ Written(instr, t)
           /\ LinesOf(cur) \in Seq(Line)
           /\ NewLine(t) \in Line
           /\ LinesOf(Opened[i])' = Append(LinesOf(cur), NewLine(t))
           /\ cur' \in Frame /\ cur'.ip = cur.ip + instr.size
           /\ cur'.jumps = cur.jumps /\ pc' = "emit"
    BY <1>5, RunsWriting
  <2>3. PICK t :
           /\ Written(instr, t)
           /\ LinesOf(cur) \in Seq(Line)
           /\ NewLine(t) \in Line
           /\ LinesOf(Opened[i])' = Append(LinesOf(cur), NewLine(t))
           /\ cur'.ip = cur.ip + instr.size /\ pc' = "emit"
    BY <2>2
  <2>4. Phase(i)' = "emit"
    BY <1>4, <1>5, <2>1, <2>3 DEF Phase
  <2>5. SUFFICES Swept(LinesOf(Opened[i])', cur') \/ Stuck(Opened[i])'
    BY <1>4, <1>5, <2>1, <2>4 DEF InOrder
  <2>6. cur.ip \in Nat /\ cur.end \in Nat /\ instr.size \in Nat
    BY <1>1 DEF Frame, Instr, Addr
  <2>7. ASSUME Swept(LinesOf(cur), cur), cur.ip <= cur.end, instr.size # 0
        PROVE  Swept(LinesOf(Opened[i])', cur')
    <3>1. cur.ip < cur'.ip /\ NewLine(t).ip = cur.ip
      BY <2>3, <2>6, <2>7 DEF NewLine
    <3>. QED  BY <1>1, <1>4, <1>5, <2>1, <2>3, <2>7, <3>1, SweptOn
  <2>8. CASE pc = "emit"
    <3>1. cur.ip <= cur.end /\ instr = Here
      BY <2>3, <2>8 DEF Written
    <3>2. Swept(LinesOf(cur), cur) \/ Stuck(cur)
      BY <1>4, <1>5, <2>1, <2>8 DEF InOrder, Phase
    <3>3. image' = image
      BY <2>3 DEF Written, WriteInstr, debugger
    <3>4. CASE instr.size = 0
      <4>1. ~ image.alive
        BY <1>1, <3>1, <3>4, SizeZero DEF Here, Frame
      <4>2. cur'.ip = cur.ip
        BY <2>3, <2>6, <3>4
      <4>. QED  BY <1>4, <1>5, <2>1, <3>1, <3>3, <3>4, <4>1, <4>2 DEF Stuck, Here
    <3>5. CASE instr.size # 0
      <4>1. ~ Stuck(cur)
        BY <3>1, <3>5 DEF Stuck, Here
      <4>. QED  BY <2>7, <3>1, <3>2, <3>5, <4>1
    <3>. QED  BY <3>4, <3>5
  <2>9. CASE pc # "emit"
    <3>1. instr = cur.instr /\ pc \in {"query", "returned"}
      BY <2>3, <2>9 DEF Written
    <3>2. Swept(LinesOf(cur), cur) /\ cur.ip <= cur.end /\ cur.instr.size # 0
      BY <1>4, <1>5, <2>1, <3>1 DEF InOrder, Phase
    <3>. QED  BY <2>7, <3>1, <3>2
  <2>. QED  BY <2>8, <2>9
<1>6. CASE Runs(i) /\ ~ EnterOpen /\ ~ Writes
  <2>1. files' = files /\ LinesOf(Opened[i])' = LinesOf(cur)
    <3>1. files' = files
      BY <1>6 DEF Runs, Goes, ScanPlain, ScanTable, ScanTableEntry, ScanTableEnd,
         ScanDone, EmitCall, lists
    <3>. QED  BY <1>4, <1>6, <3>1 DEF LinesOf
  <2>2. CASE pc \in {"scan", "table"}
    <3>1. LinesOf(cur) = <<>>
      BY <1>4, <1>6, <2>2 DEF InOrder, Phase
    <3>2. pc' \in {"scan", "table"} \/ (pc' = "emit" /\ cur'.ip = cur.start)
      BY <1>1, <1>6, <2>2 DEF Runs, Goes, ScanPlain, ScanTable, ScanTableEntry,
         ScanTableEnd, ScanDone, EmitCall, Frame
    <3>3. cur'.ip = cur'.start => Swept(<<>>, cur')
      BY DEF Swept
    <3>. QED  BY <1>4, <1>6, <2>1, <3>1, <3>2, <3>3 DEF InOrder, Phase
  <2>3. CASE pc \notin {"scan", "table"}
    <3>1. EmitCall
      BY <1>6, <2>3 DEF Runs, Goes, ScanPlain, ScanTable, ScanTableEntry,
         ScanTableEnd, ScanDone
    <3>2. /\ cur.ip <= cur.end /\ cur'.ip = cur.ip /\ cur'.instr = Here
          /\ IsFollowed(Here) /\ pc = "emit" /\ pc' = "post"
      BY <1>1, <3>1 DEF EmitCall, Frame
    <3>3. Here.size # 0
      BY <1>1, <3>2, SizeZero DEF Here, IsFollowed, Frame
    <3>4. Swept(LinesOf(cur), cur)
      BY <1>4, <1>6, <3>2, <3>3 DEF InOrder, Phase, Stuck, Here
    <3>5. Swept(LinesOf(Opened[i])', cur')
      BY <1>4, <1>6, <2>1, <3>2, <3>4 DEF Swept
    <3>. QED  BY <1>4, <1>6, <3>2, <3>3, <3>5 DEF InOrder, Phase
  <2>. QED  BY <2>2, <2>3
<1>. QED  BY <1>2, <1>3, <1>5, <1>6, SweepStep

(* The activation that closes its file.                                    *)
LEMMA Closing ==
  ASSUME TypeOK, WriterInv, EmitDone
  PROVE  /\ Len(stack) + 1 \in DOMAIN Opened /\ Opened[Len(stack) + 1] = cur
         /\ Phase(Len(stack) + 1) = "emit"
         /\ gvDisassembleFilePaths[cur.file].start = cur.start
         /\ cur.end < cur.ip /\ cur.ip \in Nat /\ cur.end \in Nat
         /\ LinesOf(cur) \in Seq(Line)
<1>1. pc = "emit" /\ cur \in Frame
  BY DEF EmitDone, TypeOK
<1>2. files[cur.file] \in File
  BY <1>1, RunningFile DEF TypeOK
<1>. QED
  BY <1>1, <1>2, OpenedAt, RunningFile DEF EmitDone, Phase, Frame, Addr, LinesOf, File

LEMMA NextClosedInOrder ==
  ASSUME TypeOK, TypeOK', WriterInv, OrderInv, ClosedInOrder, [Next]_vars
  PROVE  ClosedInOrder'
<1>. DEFINE Right(lines, path) ==
       /\ path.start <= path.end => lines # <<>>
       /\ lines # <<>> => lines[1].ip = path.start /\ lines[Len(lines)].ip <= path.end
       /\ \A k \in 1 .. Len(lines) - 1 : lines[k].ip < lines[k + 1].ip
<1>1. \A k \in DOMAIN files : files[k].closed =>
        Right(files[k].lines, gvDisassembleFilePaths[k])
  BY DEF ClosedInOrder
<1>2. SUFFICES ASSUME NEW k \in DOMAIN files', files'[k].closed
               PROVE  Right(files'[k].lines, gvDisassembleFilePaths'[k])
  BY DEF ClosedInOrder
<1>3. /\ k \in DOMAIN files /\ files'[k].lines = files[k].lines
      /\ gvDisassembleFilePaths'[k] = gvDisassembleFilePaths[k]
      /\ \/ files[k].closed
         \/ EmitDone /\ k = cur.file
  BY <1>2, ClosedStep
<1>4. CASE files[k].closed
  BY <1>1, <1>3, <1>4
<1>5. CASE EmitDone /\ k = cur.file
  <2>1. InOrder(Len(stack) + 1) /\ gvDisassembleFilePaths[k].end = cur.end
    BY <1>5, Closing DEF OrderInv, EndsOwn
  <2>2. Swept(LinesOf(cur), cur)
    BY <1>5, <2>1, Closing DEF InOrder, Stuck
  <2>3. gvDisassembleFilePaths[k].start = cur.start
    BY <1>5, Closing
  <2>. QED  BY <1>3, <1>5, <2>1, <2>2, <2>3, Closing DEF Swept, LinesOf
<1>. QED  BY <1>3, <1>4, <1>5

(* Whatever the debuggee does to its code, and wherever it ends, a file    *)
(* that is closed runs through its function in order: the sweep either     *)
(* moves on or never ends (grcasm.cpp:314-316, 878-885).                   *)
THEOREM FinishedInOrder == Spec => []ClosedInOrder
<1>1. Init => OrderInv /\ ClosedInOrder
  BY DEF Init, OrderInv, EndsOwn, ClosedInOrder, Opened
<1>2. Known => TypeOK /\ WriterInv
  BY DEF Known, TypeInv
<1>3. TypeOK /\ TypeOK' /\ WriterInv /\ OrderInv /\ [Next]_vars => OrderInv'
  BY NextEndsOwn, NextInOrder DEF OrderInv
<1>4. TypeOK /\ TypeOK' /\ WriterInv /\ OrderInv /\ ClosedInOrder /\ [Next]_vars
        => ClosedInOrder'
  BY NextClosedInOrder
<1>. QED
  BY <1>1, <1>2, <1>3, <1>4, KnownInvariant, TypeCorrect, PTL DEF Spec
----------------------------------------------------------------------------
(* Finished files are complete.                                            *)

(* Where the instruction after the one at address a begins.                *)
After(a) == a + DbgDisasmAt(image, a).size

(* The lines L of a sweep that is at o.ip: every instruction up to there.  *)
Covered(L, o) ==
  /\ L = <<>> => o.ip = o.start
  /\ L # <<>> => L[1].ip = o.start
  /\ \A k \in DOMAIN L : L[k].ip <= o.end
  /\ \A k \in DOMAIN L :
       After(L[k].ip) = IF k < Len(L) THEN L[k + 1].ip ELSE o.ip

Complete(i) ==
  LET o == Opened[i]
      L == LinesOf(Opened[i])
  IN  /\ Phase(i) = "scan" => L = <<>>
      /\ Phase(i) # "scan" => Covered(L, o)
      /\ Phase(i) = "call" => o.ip <= o.end /\ o.instr = DbgDisasmAt(image, o.ip)

CompleteInv == EndsOwn /\ \A i \in DOMAIN Opened : Complete(i)

LEMMA CoveredOn ==
  ASSUME NEW L \in Seq(Line), NEW line \in Line, NEW o, NEW q,
         Covered(L, o), o.ip <= o.end, line.ip = o.ip,
         q.start = o.start, q.end = o.end, q.ip = After(o.ip)
  PROVE  Covered(Append(L, line), q)
<1>. DEFINE M == Append(L, line)
<1>1. /\ Len(L) \in Nat /\ Len(M) = Len(L) + 1 /\ M # <<>>
      /\ M[Len(L) + 1] = line
      /\ \A k \in 1 .. Len(L) : M[k] = L[k]
      /\ DOMAIN L = 1 .. Len(L) /\ DOMAIN M = 1 .. Len(L) + 1
  OBVIOUS
<1>. HIDE DEF M
<1>2. M[1].ip = q.start
  BY <1>1 DEF Covered
<1>3. ASSUME NEW k \in DOMAIN M
      PROVE  /\ M[k].ip <= q.end
             /\ After(M[k].ip) = IF k < Len(M) THEN M[k + 1].ip ELSE q.ip
  <2>1. CASE k = Len(L) + 1
    BY <1>1, <2>1
  <2>2. CASE k # Len(L) + 1
    <3>1. k \in 1 .. Len(L) /\ M[k] = L[k] /\ k < Len(M)
      BY <1>1, <1>3, <2>2
    <3>2. /\ L[k].ip <= o.end
          /\ After(L[k].ip) = IF k < Len(L) THEN L[k + 1].ip ELSE o.ip
      BY <1>1, <3>1 DEF Covered
    <3>3. CASE k = Len(L)
      BY <1>1, <3>1, <3>2, <3>3
    <3>4. CASE k # Len(L)
      <4>1. k < Len(L) /\ k + 1 \in 1 .. Len(L)
        BY <1>1, <3>1, <3>4
      <4>. QED  BY <1>1, <3>1, <3>2, <4>1
    <3>. QED  BY <3>3, <3>4
  <2>. QED  BY <2>1, <2>2
<1>. QED  BY <1>1, <1>2, <1>3 DEF Covered, M

LEMMA NextComplete ==
  ASSUME MaxPatches = 0, TypeOK, TypeOK', WriterInv, CompleteInv, [Next]_vars,
         NEW i \in DOMAIN Opened'
  PROVE  Complete(i)'
<1>1. cur \in Frame /\ cur' \in Frame /\ image' = image
  BY FixedStays DEF TypeOK
<1>3. CASE Rests(i)
  <2>1. Complete(i) /\ Alike(Opened[i], Opened'[i]) /\ Phase(i)' = Phase(i)
        /\ LinesOf(Opened[i])' = LinesOf(Opened[i])
    BY <1>3 DEF Rests, CompleteInv
  <2>2. Covered(LinesOf(Opened[i]), Opened[i])
          => Covered(LinesOf(Opened[i]), Opened[i])'
    BY <1>1, <2>1 DEF Covered, After, Alike
  <2>. QED  BY <1>1, <2>1, <2>2 DEF Complete, Alike
<1>4. CASE Runs(i) /\ EnterOpen
  <2>1. LinesOf(Opened[i])' = <<>>
    <3>1. files \in Seq(File) /\ Opened'[i] = cur' /\ cur'.file = Len(files) + 1
      BY <1>1, <1>4 DEF TypeOK, Runs, EnterOpen, WriterInv, Frame
    <3>. QED  BY <1>4, <3>1 DEF LinesOf, EnterOpen
  <2>2. Phase(i)' = "scan"
    BY <1>4, OpenedAt DEF Runs, EnterOpen, Phase
  <2>. QED  BY <2>1, <2>2 DEF Complete
<1>5. ASSUME Runs(i), ~ EnterOpen
      PROVE  /\ Complete(i) /\ Opened[i] = cur /\ Opened'[i] = cur'
             /\ cur'.file = cur.file /\ cur'.start = cur.start /\ cur'.end = cur.end
             /\ ~ (i <= Len(stack)) /\ ~ (i <= Len(stack'))
  BY <1>5, RunsOn, OpenedAt DEF Runs, CompleteInv
<1>6. CASE Runs(i) /\ Writes
  <2>1. ~ EnterOpen
    BY <1>6 DEF Writes, Written, EnterOpen
  <2>2. PICK instr \in Instr : \E t :
           /\ Written(instr, t)
           /\ LinesOf(cur) \in Seq(Line)
           /\ NewLine(t) \in Line
           /\ LinesOf(Opened[i])' = Append(LinesOf(cur), NewLine(t))
           /\ cur' \in Frame /\ cur'.ip = cur.ip + instr.size
           /\ cur'.jumps = cur.jumps /\ pc' = "emit"
    BY <1>6, RunsWriting
  <2>3. PICK t :
           /\ Written(instr, t)
           /\ LinesOf(cur) \in Seq(Line)
           /\ NewLine(t) \in Line
           /\ LinesOf(Opened[i])' = Append(LinesOf(cur), NewLine(t))
           /\ cur'.ip = cur.ip + instr.size /\ pc' = "emit"
    BY <2>2
  <2>4. Phase(i)' = "emit"
    BY <1>5, <1>6, <2>1, <2>3 DEF Phase
  <2>5. /\ cur.ip <= cur.end
        /\ instr = DbgDisasmAt(image, cur.ip)
        /\ Covered(LinesOf(cur), cur)
    BY <1>5, <1>6, <2>1, <2>3 DEF Complete, Phase, Written, Here
  <2>6. Covered(Append(LinesOf(cur), NewLine(t)), cur')
    <3>1. cur'.ip = After(cur.ip) /\ NewLine(t).ip = cur.ip
      BY <2>3, <2>5 DEF After, NewLine
    <3>. QED  BY <1>5, <1>6, <2>1, <2>3, <2>5, <3>1, CoveredOn
  <2>. QED  BY <1>1, <1>5, <1>6, <2>1, <2>3, <2>4, <2>6 DEF Complete, Covered, After
<1>7. CASE Runs(i) /\ ~ EnterOpen /\ ~ Writes
  <2>1. LinesOf(Opened[i])' = LinesOf(cur)
    <3>1. files' = files
      BY <1>7 DEF Runs, Goes, ScanPlain, ScanTable, ScanTableEntry, ScanTableEnd,
         ScanDone, EmitCall, lists
    <3>. QED  BY <1>5, <1>7, <3>1 DEF LinesOf
  <2>2. CASE pc \in {"scan", "table"}
    <3>1. LinesOf(cur) = <<>>
      BY <1>5, <1>7, <2>2 DEF Complete, Phase
    <3>2. pc' \in {"scan", "table"} \/ (pc' = "emit" /\ cur'.ip = cur.start)
      BY <1>1, <1>7, <2>2 DEF Runs, Goes, ScanPlain, ScanTable, ScanTableEntry,
         ScanTableEnd, ScanDone, EmitCall, Frame
    <3>3. cur'.ip = cur'.start => Covered(<<>>, cur')
      BY DEF Covered
    <3>. QED
      BY <1>1, <1>5, <1>7, <2>1, <3>1, <3>2, <3>3 DEF Complete, Phase, Covered, After
  <2>3. CASE pc \notin {"scan", "table"}
    <3>1. EmitCall
      BY <1>7, <2>3 DEF Runs, Goes, ScanPlain, ScanTable, ScanTableEntry,
         ScanTableEnd, ScanDone
    <3>2. /\ cur.ip <= cur.end /\ cur'.ip = cur.ip /\ cur'.instr = Here
          /\ pc = "emit" /\ pc' = "post"
      BY <1>1, <3>1 DEF EmitCall, Frame
    <3>3. Covered(LinesOf(cur), cur)
      BY <1>5, <1>7, <3>2 DEF Complete, Phase
    <3>4. Covered(LinesOf(cur), cur')
      BY <1>5, <1>7, <3>2, <3>3 DEF Covered
    <3>. QED
      BY <1>1, <1>5, <1>7, <2>1, <3>2, <3>4 DEF Complete, Phase, Covered, After, Here
  <2>. QED  BY <2>2, <2>3
<1>. QED  BY <1>3, <1>4, <1>6, <1>7, SweepStep

LEMMA NextSweepComplete ==
  ASSUME MaxPatches = 0, TypeOK, TypeOK', WriterInv, CompleteInv, SweepComplete,
         [Next]_vars
  PROVE  SweepComplete'
<1>. DEFINE Right(lines, path) ==
       /\ path.start <= path.end => lines # <<>> /\ lines[1].ip = path.start
       /\ \A k \in DOMAIN lines : lines[k].ip <= path.end
       /\ \A k \in DOMAIN lines : IF k < Len(lines)
                                    THEN lines[k + 1].ip = After(lines[k].ip)
                                    ELSE After(lines[k].ip) > path.end
<1>1. \A k \in DOMAIN files : files[k].closed =>
        Right(files[k].lines, gvDisassembleFilePaths[k])
  BY DEF SweepComplete, After
<1>2. image' = image
  BY FixedStays
<1>3. SUFFICES ASSUME NEW k \in DOMAIN files', files'[k].closed
               PROVE  Right(files'[k].lines, gvDisassembleFilePaths'[k])
  BY <1>2 DEF SweepComplete, After
<1>4. /\ k \in DOMAIN files /\ files'[k].lines = files[k].lines
      /\ gvDisassembleFilePaths'[k] = gvDisassembleFilePaths[k]
      /\ \/ files[k].closed
         \/ EmitDone /\ k = cur.file
  BY <1>3, ClosedStep
<1>5. CASE files[k].closed
  BY <1>1, <1>4, <1>5
<1>6. CASE EmitDone /\ k = cur.file
  <2>1. Complete(Len(stack) + 1) /\ gvDisassembleFilePaths[k].end = cur.end
    BY <1>6, Closing DEF CompleteInv, EndsOwn
  <2>2. Covered(LinesOf(cur), cur)
    BY <1>6, <2>1, Closing DEF Complete
  <2>3. /\ gvDisassembleFilePaths[k].start = cur.start
        /\ cur.end < cur.ip /\ cur.ip \in Nat /\ cur.end \in Nat
    BY <1>6, Closing
  <2>. QED  BY <1>4, <1>6, <2>1, <2>2, <2>3 DEF Covered, LinesOf
<1>. QED  BY <1>4, <1>5, <1>6

(* While the code stays what it is, a closed file has one line for every   *)
(* instruction from the function's start to its end, whatever was          *)
(* extracted between two of its lines (grcasm.cpp:313-314, 878).           *)
THEOREM SweepsComplete ==
  ASSUME MaxPatches = 0
  PROVE  Spec => []SweepComplete
<1>1. Init => CompleteInv /\ SweepComplete
  BY DEF Init, CompleteInv, EndsOwn, SweepComplete, Opened
<1>2. Known => TypeOK /\ WriterInv
  BY DEF Known, TypeInv
<1>3. TypeOK /\ TypeOK' /\ WriterInv /\ CompleteInv /\ [Next]_vars => CompleteInv'
  BY NextEndsOwn, NextComplete DEF CompleteInv
<1>4. TypeOK /\ TypeOK' /\ WriterInv /\ CompleteInv /\ SweepComplete /\ [Next]_vars
        => SweepComplete'
  BY NextSweepComplete
<1>. QED
  BY <1>1, <1>2, <1>3, <1>4, KnownInvariant, TypeCorrect, PTL DEF Spec
----------------------------------------------------------------------------
(* Jumps lead to their labels.                                             *)

(* The jumps an activation has collected: a number stands for one jump, a  *)
(* table's number and index for one entry of it, and each leads where the  *)
(* instruction or the table says.                                          *)
Collected(o) ==
  /\ \A j \in o.jumps : j.type = "addr" =>
       /\ j.n < o.jmpCount /\ j.k = 0
       /\ j.to = DbgDisasmAt(image, j.eip).constant
  /\ \A j \in o.jumps : j.type = "table" =>
       /\ j.n < o.first \/ (j.n = o.first /\ j.k < o.second)
       /\ j.to = ReadDword(image, DbgDisasmAt(image, j.eip).constant + 4 * j.k)
  /\ \A x, y \in o.jumps : x.type = y.type /\ x.n = y.n /\ x.k = y.k => x = y

(* Each line carries the labels of the jumps to it, and refers to labels   *)
(* of jumps from it.                                                       *)
Marked(L, o) ==
  \A k \in DOMAIN L :
    /\ L[k].labels = {LabelName(j) : j \in {x \in o.jumps : x.to = L[k].ip}}
    /\ \A r \in L[k].refs : r.form \in {"LABEL", "SWITCH_CASE"} =>
         \E j \in o.jumps : LabelName(j) = r /\ j.eip = L[k].ip

Labelling(i) ==
  LET o == Opened[i]
      L == LinesOf(Opened[i])
  IN  /\ Phase(i) = "scan" => L = <<>>
      /\ Collected(o)
      /\ Marked(L, o)
      /\ Phase(i) = "scan" /\ pc = "table" => o.instr = DbgDisasmAt(image, o.ip)
      /\ Phase(i) = "scan" /\ pc = "scan" =>
           \A j \in o.jumps : j.type = "table" => j.n < o.first

(* An activation enters with nothing collected.                            *)
Fresh == pc = "enter" => cur.jumps = {}

LabelInv == Fresh /\ \A i \in DOMAIN Opened : Labelling(i)

LEMMA NextFresh ==
  ASSUME TypeOK, Fresh, [Next]_vars
  PROVE  Fresh'
<1>1. CASE pc' # "enter"
  BY <1>1 DEF Fresh
<1>2. CASE UNCHANGED walk
  BY <1>2 DEF walk, Fresh
<1>3. ASSUME NEW end, Recurse(end) PROVE Fresh'
  BY <1>3 DEF Recurse, Activation, Fresh
<1>4. CASE Enter
  BY <1>1, <1>4 DEF Enter, EnterRefused, EnterCreateFails, EnterOpen, Return
<1>5. CASE Scan
  BY <1>1, <1>5 DEF Scan, ScanPlain, ScanTable, ScanTableEntry, ScanTableEnd,
     ScanDone
<1>6. CASE Emit
  BY <1>1, <1>6 DEF Emit, EmitPlain, EmitCallBig, EmitCall, EmitDone, WriteInstr,
     Return
<1>7. CASE Query
  BY <1>1, <1>7 DEF Query, PostAnalysis, QueryKnown, QueryRetry, QueryFailed,
     CallFallback, WriteInstr
<1>8. CASE Trim
  BY <1>1, <1>3, <1>8 DEF Trim, TrimStep, TrimAtInt3, TrimWhole
<1>9. CASE Returned
  BY <1>1, <1>9 DEF Returned, ReturnedWritten, ReturnedRefused, CallFallback,
     WriteInstr
<1>. QED
  BY <1>2, <1>4, <1>5, <1>6, <1>7, <1>8, <1>9
  DEF Next, Walk, Terminated, vars, walk

LEMMA TextRefs ==
  ASSUME NEW i, NEW r \in (Text(i)).refs, r.form \in {"LABEL", "SWITCH_CASE"}
  PROVE  \E j \in cur.jumps : LabelName(j) = r /\ j.eip = cur.ip
<1>1. \A a : (FunctionName(a)).form \notin {"LABEL", "SWITCH_CASE"}
  BY DEF FunctionName
<1>2. \A type : \A j \in JumpsFrom(cur.ip, type) : j \in cur.jumps /\ j.eip = cur.ip
  BY DEF JumpsFrom
<1>3. r \in SwitchText.refs \/ r \in (JumpText(i)).refs
  BY DEF Text, PlainText
<1>4. r \in SwitchText.refs \/ r \in JumpRefs(i)
  BY <1>3 DEF JumpText
<1>5. CASE r \in SwitchText.refs
  BY <1>2, <1>5 DEF SwitchText
<1>6. CASE r \in JumpRefs(i)
  BY <1>1, <1>2, <1>6 DEF JumpRefs
<1>. QED  BY <1>4, <1>5, <1>6

LEMMA WrittenRefs ==
  ASSUME NEW instr, NEW t, Written(instr, t),
         NEW r \in t.refs, r.form \in {"LABEL", "SWITCH_CASE"}
  PROVE  \E j \in cur.jumps : LabelName(j) = r /\ j.eip = cur.ip
<1>1. CASE t = Text(Here)
  <2>1. r \in (Text(Here)).refs
    BY <1>1
  <2>. QED  BY <2>1, TextRefs
<1>2. CASE \E a \in Addr : t \in {CallText(FunctionName(a)), CallText(GdwName(a))}
  <2>1. PICK a \in Addr : t \in {CallText(FunctionName(a)), CallText(GdwName(a))}
    BY <1>2
  <2>2. r \in {FunctionName(a), GdwName(a)}
    BY <2>1 DEF CallText
  <2>3. r.form \in {"label", "SUB", "gdw"}
    BY <2>2 DEF FunctionName, GdwName
  <2>. QED  BY <2>3
<1>. QED  BY <1>1, <1>2 DEF Written

LEMMA MarkedOn ==
  ASSUME TypeOK, NEW L \in Seq(Line), NEW instr, NEW t, Written(instr, t),
         NewLine(t) \in Line, Marked(L, cur)
  PROVE  Marked(Append(L, NewLine(t)), cur)
<1>1. PICK line : line = NewLine(t)
  OBVIOUS
<1>2. /\ line.labels = {LabelName(j) : j \in {x \in cur.jumps : x.to = line.ip}}
      /\ line.refs = t.refs /\ line.ip = cur.ip
  BY <1>1 DEF NewLine, LabelsHere
<1>3. \A r \in line.refs : r.form \in {"LABEL", "SWITCH_CASE"} =>
        \E j \in cur.jumps : LabelName(j) = r /\ j.eip = line.ip
  BY <1>2, WrittenRefs
<1>. DEFINE M == Append(L, line)
<1>4. /\ DOMAIN M = 1 .. Len(L) + 1 /\ DOMAIN L = 1 .. Len(L)
      /\ M[Len(L) + 1] = line /\ Len(L) \in Nat
      /\ \A k \in 1 .. Len(L) : M[k] = L[k]
  BY <1>1
<1>. HIDE DEF M
<1>5. \A k \in DOMAIN M : k = Len(L) + 1 \/ k \in DOMAIN L
  BY <1>4
<1>6. Marked(M, cur)
  BY <1>2, <1>3, <1>4, <1>5 DEF Marked
<1>. QED  BY <1>1, <1>6 DEF M
(* Collecting the jump of one instruction, or one entry of a table.        *)
LEMMA CollectedOn ==
  ASSUME TypeOK, Collected(cur), cur' \in Frame, image' = image,
         \/ ScanPlain
         \/ ScanTable /\ \A j \in cur.jumps : j.type = "table" => j.n < cur.first
         \/ ScanTableEntry /\ cur.instr = DbgDisasmAt(image, cur.ip)
         \/ ScanTableEnd
  PROVE  Collected(cur')
<1>1. /\ cur \in Frame /\ cur.jumps \in SUBSET Jump
      /\ cur.jmpCount \in Nat /\ cur.first \in Nat /\ cur.second \in Nat
  BY DEF TypeOK, Frame
<1>2. \A j \in cur.jumps : j.type \in {"addr", "table"} /\ j.n \in Nat /\ j.k \in Nat
  BY <1>1 DEF Jump
<1>3. CASE ScanPlain
  <2>1. CASE cur'.jumps = cur.jumps
    <3>1. cur'.jmpCount \in {cur.jmpCount, cur.jmpCount + 1}
          /\ cur'.first = cur.first /\ cur'.second = cur.second
      BY <1>1, <1>3 DEF ScanPlain, Frame
    <3>. QED  BY <1>1, <1>2, <2>1, <3>1 DEF Collected
  <2>2. CASE cur'.jumps # cur.jumps
    <3>. DEFINE new == [type |-> "addr", eip |-> cur.ip, to |-> Here.constant,
                        n |-> cur.jmpCount, k |-> 0]
    <3>1. /\ cur'.jumps = cur.jumps \cup {new}
          /\ cur'.jmpCount = cur.jmpCount + 1
          /\ cur'.first = cur.first /\ cur'.second = cur.second
      BY <1>1, <1>3, <2>2 DEF ScanPlain, Frame
    <3>2. /\ new.type = "addr" /\ new.n = cur.jmpCount /\ new.k = 0
          /\ new.to = DbgDisasmAt(image, new.eip).constant
      BY DEF Here
    <3>. HIDE DEF new
    <3>3. \A j \in cur.jumps : j.type = "addr" => j.n < cur.jmpCount
      BY DEF Collected
    <3>4. \A j \in cur'.jumps : j.type = "addr" =>
            /\ j.n < cur'.jmpCount /\ j.k = 0
            /\ j.to = DbgDisasmAt(image, j.eip).constant
      BY <1>1, <1>2, <3>1, <3>2 DEF Collected
    <3>5. \A x, y \in cur'.jumps : x.type = y.type /\ x.n = y.n /\ x.k = y.k => x = y
      BY <1>1, <1>2, <3>1, <3>2, <3>3 DEF Collected
    <3>. QED  BY <3>1, <3>2, <3>4, <3>5 DEF Collected
  <2>. QED  BY <2>1, <2>2
<1>4. CASE ScanTable /\ \A j \in cur.jumps : j.type = "table" => j.n < cur.first
  <2>1. /\ cur'.jumps = cur.jumps /\ cur'.jmpCount = cur.jmpCount
        /\ cur'.first = cur.first
    BY <1>1, <1>4 DEF ScanTable, Frame
  <2>. QED  BY <1>4, <2>1 DEF Collected
<1>5. CASE ScanTableEntry /\ cur.instr = DbgDisasmAt(image, cur.ip)
  <2>. DEFINE new == [type |-> "table", eip |-> cur.ip, to |-> TableEntry,
                      n |-> cur.first, k |-> cur.second]
  <2>1. /\ cur'.jumps = cur.jumps \cup {new}
        /\ cur'.jmpCount = cur.jmpCount
        /\ cur'.first = cur.first /\ cur'.second = cur.second + 1
    BY <1>1, <1>5 DEF ScanTableEntry, Frame
  <2>2. /\ new.type = "table" /\ new.n = cur.first /\ new.k = cur.second
        /\ new.to = ReadDword(image, DbgDisasmAt(image, new.eip).constant + 4 * new.k)
    BY <1>5 DEF TableEntry
  <2>. HIDE DEF new
  <2>3. \A j \in cur.jumps : j.type = "table" =>
          j.n < cur.first \/ (j.n = cur.first /\ j.k < cur.second)
    BY DEF Collected
  <2>4. \A j \in cur'.jumps : j.type = "table" =>
          /\ j.n < cur'.first \/ (j.n = cur'.first /\ j.k < cur'.second)
          /\ j.to = ReadDword(image, DbgDisasmAt(image, j.eip).constant + 4 * j.k)
    <3>. SUFFICES ASSUME NEW j \in cur'.jumps, j.type = "table"
                  PROVE  /\ j.n < cur'.first \/ (j.n = cur'.first /\ j.k < cur'.second)
                         /\ j.to = ReadDword(image, DbgDisasmAt(image, j.eip).constant + 4 * j.k)
      OBVIOUS
    <3>1. CASE j = new
      BY <1>1, <2>1, <2>2, <3>1
    <3>2. CASE j \in cur.jumps
      BY <1>1, <1>2, <2>1, <2>3, <3>2 DEF Collected
    <3>. QED  BY <2>1, <3>1, <3>2
  <2>5. \A x, y \in cur'.jumps : x.type = y.type /\ x.n = y.n /\ x.k = y.k => x = y
    <3>1. \A x \in cur.jumps : ~ (x.type = "table" /\ x.n = cur.first /\ x.k = cur.second)
      BY <1>1, <1>2, <2>3
    <3>. QED  BY <2>1, <2>2, <3>1 DEF Collected
  <2>. QED  BY <2>1, <2>2, <2>4, <2>5 DEF Collected
<1>6. CASE ScanTableEnd
  <2>1. /\ cur'.jumps = cur.jumps /\ cur'.jmpCount = cur.jmpCount
        /\ cur'.first = cur.first + 1
    BY <1>1, <1>6 DEF ScanTableEnd, Frame
  <2>2. \A j \in cur.jumps : j.type = "table" => j.n < cur.first + 1
    BY <1>1, <1>2 DEF Collected
  <2>. QED  BY <2>1, <2>2 DEF Collected
<1>. QED  BY <1>3, <1>4, <1>5, <1>6

LEMMA NextLabelling ==
  ASSUME MaxPatches = 0, TypeOK, TypeOK', WriterInv, LabelInv, [Next]_vars,
         NEW i \in DOMAIN Opened'
  PROVE  Labelling(i)'
<1>1. cur \in Frame /\ cur' \in Frame /\ image' = image
  BY FixedStays DEF TypeOK
<1>2. CASE Rests(i)
  <2>1. Labelling(i) /\ Alike(Opened[i], Opened'[i]) /\ Phase(i)' = Phase(i)
        /\ LinesOf(Opened[i])' = LinesOf(Opened[i])
        /\ (Phase(i) = "scan" => pc' = pc)
    BY <1>2 DEF Rests, LabelInv
  <2>2. Collected(Opened[i])'
    BY <1>1, <2>1 DEF Labelling, Collected, Alike
  <2>3. Marked(LinesOf(Opened[i]), Opened[i])'
    BY <2>1 DEF Labelling, Marked, Alike
  <2>. QED  BY <1>1, <2>1, <2>2, <2>3 DEF Labelling, Alike
<1>3. CASE Runs(i) /\ EnterOpen
  <2>1. Opened'[i] = cur' /\ cur'.jumps = {} /\ pc' = "scan"
    BY <1>1, <1>3 DEF Runs, EnterOpen, LabelInv, Fresh, Frame
  <2>2. LinesOf(Opened[i])' = <<>>
    <3>1. files \in Seq(File) /\ cur'.file = Len(files) + 1
      BY <1>1, <1>3 DEF TypeOK, EnterOpen, WriterInv, Frame
    <3>. QED  BY <1>3, <2>1, <3>1 DEF LinesOf, EnterOpen
  <2>3. Collected(Opened[i])' /\ Marked(LinesOf(Opened[i]), Opened[i])'
    BY <2>1, <2>2 DEF Collected, Marked
  <2>. QED  BY <2>1, <2>2, <2>3 DEF Labelling
<1>4. ASSUME Runs(i), ~ EnterOpen
      PROVE  /\ Labelling(i) /\ Opened[i] = cur /\ Opened'[i] = cur'
             /\ cur'.file = cur.file
             /\ ~ (i <= Len(stack)) /\ ~ (i <= Len(stack'))
  BY <1>4, RunsOn, OpenedAt DEF Runs, LabelInv
<1>5. CASE Runs(i) /\ Writes
  <2>1. ~ EnterOpen
    BY <1>5 DEF Writes, Written, EnterOpen
  <2>2. PICK instr \in Instr : \E t :
           /\ Written(instr, t)
           /\ LinesOf(cur) \in Seq(Line)
           /\ NewLine(t) \in Line
           /\ LinesOf(Opened[i])' = Append(LinesOf(cur), NewLine(t))
           /\ cur' \in Frame /\ cur'.ip = cur.ip + instr.size
           /\ cur'.jumps = cur.jumps /\ pc' = "emit"
    BY <1>5, RunsWriting
  <2>3. PICK t :
           /\ Written(instr, t)
           /\ LinesOf(cur) \in Seq(Line)
           /\ NewLine(t) \in Line
           /\ LinesOf(Opened[i])' = Append(LinesOf(cur), NewLine(t))
           /\ cur'.jumps = cur.jumps /\ pc' = "emit"
    BY <2>2
  <2>4. Phase(i)' = "emit"
    BY <1>4, <1>5, <2>1, <2>3 DEF Phase
  <2>5. Marked(Append(LinesOf(cur), NewLine(t)), cur)
    BY <1>4, <1>5, <2>1, <2>3, MarkedOn DEF Labelling
  <2>6. Marked(LinesOf(Opened[i]), Opened[i])'
    BY <1>4, <1>5, <2>1, <2>3, <2>5 DEF Marked
  <2>7. /\ cur'.jmpCount = cur.jmpCount
        /\ cur'.first = cur.first /\ cur'.second = cur.second
    BY <1>1, <2>3 DEF Written, WriteInstr, Frame
  <2>8. Collected(Opened[i])'
    BY <1>1, <1>4, <1>5, <2>1, <2>3, <2>7 DEF Labelling, Collected
  <2>. QED  BY <2>4, <2>6, <2>8 DEF Labelling
<1>6. CASE Runs(i) /\ ~ EnterOpen /\ ~ Writes
  <2>1. LinesOf(Opened[i])' = LinesOf(cur)
    <3>1. files' = files
      BY <1>6 DEF Runs, Goes, ScanPlain, ScanTable, ScanTableEntry, ScanTableEnd,
         ScanDone, EmitCall, lists
    <3>. QED  BY <1>4, <1>6, <3>1 DEF LinesOf
  <2>2. CASE pc \in {"scan", "table"}
    <3>1. /\ LinesOf(cur) = <<>> /\ Collected(cur)
          /\ pc = "table" => cur.instr = DbgDisasmAt(image, cur.ip)
          /\ pc = "scan" => \A j \in cur.jumps : j.type = "table" => j.n < cur.first
      BY <1>4, <1>6, <2>2 DEF Labelling, Phase
    <3>2. Marked(LinesOf(Opened[i]), Opened[i])'
      BY <2>1, <3>1 DEF Marked
    <3>3. Collected(cur')
      <4>1. CASE ScanDone
        <5>1. /\ cur'.jumps = cur.jumps /\ cur'.jmpCount = cur.jmpCount
              /\ cur'.first = cur.first /\ cur'.second = cur.second
          BY <1>1, <4>1 DEF ScanDone, Frame
        <5>. QED  BY <3>1, <5>1 DEF Collected
      <4>2. ScanDone \/ ScanPlain \/ ScanTable \/ ScanTableEntry \/ ScanTableEnd
        BY <1>6, <2>2 DEF Runs, Goes, EmitCall
      <4>3. (ScanTableEntry => pc = "table") /\ (ScanTable => pc = "scan")
        BY DEF ScanTableEntry, ScanTable
      <4>. QED  BY <1>1, <3>1, <4>1, <4>2, <4>3, CollectedOn
    <3>4. Collected(Opened[i])'
      BY <1>1, <1>4, <1>6, <3>3 DEF Collected
    <3>5. pc' = "table" => cur'.instr = DbgDisasmAt(image, cur'.ip)
      BY <1>1, <1>6, <2>2, <3>1 DEF Runs, Goes, ScanPlain, ScanTable, ScanTableEntry,
         ScanTableEnd, ScanDone, EmitCall, Frame, Here
    <3>6. pc' = "scan" => \A j \in cur'.jumps : j.type = "table" => j.n < cur'.first
      <4>1. CASE ScanPlain
        <5>1. \A j \in cur'.jumps : j.type = "table" => j \in cur.jumps
          BY <1>1, <4>1 DEF ScanPlain, Frame
        <5>2. cur'.first = cur.first /\ pc = "scan"
          BY <1>1, <4>1 DEF ScanPlain, Frame
        <5>. QED  BY <3>1, <5>1, <5>2
      <4>2. CASE ScanTableEnd
        <5>1. cur'.jumps = cur.jumps /\ cur'.first = cur.first + 1 /\ cur.first \in Nat
          BY <1>1, <4>2 DEF ScanTableEnd, Frame
        <5>2. \A j \in cur.jumps : j.n \in Nat
          BY <1>1 DEF Frame, Jump
        <5>. QED  BY <3>1, <5>1, <5>2 DEF Collected
      <4>3. pc' = "scan" => ScanPlain \/ ScanTableEnd
        BY <1>6, <2>2 DEF Runs, Goes, ScanTable, ScanTableEntry, ScanDone, EmitCall
      <4>. QED  BY <4>1, <4>2, <4>3
    <3>. QED
      BY <1>1, <1>4, <1>6, <2>1, <3>1, <3>2, <3>4, <3>5, <3>6 DEF Labelling
  <2>3. CASE pc \notin {"scan", "table"}
    <3>1. EmitCall
      BY <1>6, <2>3 DEF Runs, Goes, ScanPlain, ScanTable, ScanTableEntry,
         ScanTableEnd, ScanDone
    <3>2. /\ pc' = "post"
          /\ cur'.jumps = cur.jumps /\ cur'.jmpCount = cur.jmpCount
          /\ cur'.first = cur.first /\ cur'.second = cur.second
      BY <1>1, <3>1 DEF EmitCall, Frame
    <3>3. Collected(cur) /\ Marked(LinesOf(cur), cur)
      BY <1>4, <1>6 DEF Labelling
    <3>4. Collected(Opened[i])'
      BY <1>1, <1>4, <1>6, <3>2, <3>3 DEF Collected
    <3>5. Marked(LinesOf(Opened[i]), Opened[i])'
      BY <1>4, <1>6, <2>1, <3>2, <3>3 DEF Marked
    <3>6. Phase(i)' = "call"
      BY <3>2 DEF Phase
    <3>. QED  BY <3>4, <3>5, <3>6 DEF Labelling
  <2>. QED  BY <2>2, <2>3
<1>. QED  BY <1>2, <1>3, <1>5, <1>6, SweepStep

(* What the two sweeps agree on, seen from the jump.                       *)
LEMMA JumpLands ==
  ASSUME NEW L \in Seq(Line), NEW o \in Frame, Collected(o), Marked(L, o),
         NEW j \in DOMAIN L, NEW r \in L[j].refs, r.form \in {"LABEL", "SWITCH_CASE"},
         NEW k \in DOMAIN L
  PROVE  (L[k].ip = JumpTarget(L[j].ip, r)) <=> (r \in L[k].labels)
<1>1. o.jumps \in SUBSET Jump
  BY DEF Frame
<1>2. PICK x \in o.jumps : LabelName(x) = r /\ x.eip = L[j].ip
  BY DEF Marked
<1>3. /\ x.type \in {"addr", "table"} /\ r.n = x.n /\ r.k = x.k
      /\ r.form = IF x.type = "addr" THEN "LABEL" ELSE "SWITCH_CASE"
  BY <1>1, <1>2 DEF Jump, LabelName
<1>4. JumpTarget(L[j].ip, r) = x.to
  BY <1>2, <1>3 DEF JumpTarget, Collected
<1>5. ASSUME NEW y \in o.jumps, LabelName(y) = r PROVE y = x
  <2>1. y.type = x.type /\ y.n = x.n /\ y.k = x.k
    BY <1>1, <1>3, <1>5 DEF Jump, LabelName
  <2>. QED  BY <2>1 DEF Collected
<1>6. L[k].labels = {LabelName(y) : y \in {z \in o.jumps : z.to = L[k].ip}}
  BY DEF Marked
<1>. QED  BY <1>2, <1>4, <1>5, <1>6

LEMMA NextJumpsLand ==
  ASSUME MaxPatches = 0, TypeOK, TypeOK', WriterInv, LabelInv, JumpsLand, [Next]_vars
  PROVE  JumpsLand'
<1>. DEFINE Right(L) ==
       \A j \in DOMAIN L :
         \A r \in L[j].refs : r.form \in {"LABEL", "SWITCH_CASE"} =>
           \A k \in DOMAIN L :
             (L[k].ip = JumpTarget(L[j].ip, r)) <=> (r \in L[k].labels)
<1>1. \A k \in DOMAIN files : files[k].closed => Right(files[k].lines)
  BY DEF JumpsLand
<1>2. image' = image
  BY FixedStays
<1>3. SUFFICES ASSUME NEW k \in DOMAIN files', files'[k].closed
               PROVE  Right(files'[k].lines)
  BY <1>2 DEF JumpsLand, JumpTarget
<1>4. /\ k \in DOMAIN files /\ files'[k].lines = files[k].lines
      /\ \/ files[k].closed
         \/ EmitDone /\ k = cur.file
  BY <1>3, ClosedStep
<1>5. CASE files[k].closed
  BY <1>1, <1>4, <1>5
<1>6. CASE EmitDone /\ k = cur.file
  <2>1. Labelling(Len(stack) + 1) /\ Opened[Len(stack) + 1] = cur
    BY <1>6, Closing DEF LabelInv
  <2>2. Collected(cur) /\ Marked(LinesOf(cur), cur)
    BY <2>1 DEF Labelling
  <2>3. LinesOf(cur) \in Seq(Line) /\ cur \in Frame
    BY <1>6, Closing DEF TypeOK
  <2>4. Right(LinesOf(cur))
    BY <2>2, <2>3, JumpLands
  <2>. QED  BY <1>4, <1>6, <2>4 DEF LinesOf
<1>. QED  BY <1>4, <1>5, <1>6

(* While the code stays what it is, the label a jump or a switch names     *)
(* stands on the line of the jump's target and nowhere else, whatever the  *)
(* jump tables, the recursion and the sizes of instructions                *)
(* (grcasm.cpp:251-310, 593-766, 856-873).                                 *)
THEOREM JumpsReachLabels ==
  ASSUME MaxPatches = 0
  PROVE  Spec => []JumpsLand
<1>1. Init => LabelInv /\ JumpsLand
  BY DEF Init, LabelInv, Fresh, Activation, JumpsLand, Opened
<1>2. Known => TypeOK /\ WriterInv
  BY DEF Known, TypeInv
<1>3. TypeOK /\ TypeOK' /\ WriterInv /\ LabelInv /\ [Next]_vars => LabelInv'
  BY NextFresh, NextLabelling DEF LabelInv
<1>4. TypeOK /\ TypeOK' /\ WriterInv /\ LabelInv /\ JumpsLand /\ [Next]_vars
        => JumpsLand'
  BY NextJumpsLand
<1>. QED
  BY <1>1, <1>2, <1>3, <1>4, KnownInvariant, TypeCorrect, PTL DEF Spec

----------------------------------------------------------------------------
(* The refinement, for every debuggee, whatever fails and however the code *)
(* changes: initial states map to initial states, and every step to a step *)
(* or a stutter.                                                           *)

(* The refinement mapping, under the names of Extraction.                  *)
Active == [i \in DOMAIN Opened |-> Opened[i].start]
Exported == {gvdwCallAddress[i] : i \in DOMAIN gvdwCallAddress}

(* Only the selected function is entered outside any other.                *)
RootFirst == pc = "enter" /\ stack = <<>> => files = <<>>

LEMMA NextRootFirst ==
  ASSUME TypeOK, RootFirst, [Next]_vars
  PROVE  RootFirst'
<1>1. CASE pc' # "enter"
  BY <1>1 DEF RootFirst
<1>2. CASE UNCHANGED <<walk, lists>>
  BY <1>2 DEF walk, lists, RootFirst
<1>3. ASSUME NEW end, Recurse(end) PROVE RootFirst'
  <2>1. stack \in Seq(Frame) /\ stack' = Append(stack, cur)
    BY <1>3 DEF TypeOK, Recurse
  <2>2. stack' # <<>>
    BY <2>1
  <2>. QED  BY <2>2 DEF RootFirst
<1>4. CASE Enter
  BY <1>1, <1>4 DEF Enter, EnterRefused, EnterCreateFails, EnterOpen, Return
<1>5. CASE Scan
  BY <1>1, <1>5 DEF Scan, ScanPlain, ScanTable, ScanTableEntry, ScanTableEnd,
     ScanDone
<1>6. CASE Emit
  BY <1>1, <1>6 DEF Emit, EmitPlain, EmitCallBig, EmitCall, EmitDone, WriteInstr,
     Return
<1>7. CASE Query
  BY <1>1, <1>7 DEF Query, PostAnalysis, QueryKnown, QueryRetry, QueryFailed,
     CallFallback, WriteInstr
<1>8. CASE Trim
  BY <1>1, <1>3, <1>8 DEF Trim, TrimStep, TrimAtInt3, TrimWhole
<1>9. CASE Returned
  BY <1>1, <1>9 DEF Returned, ReturnedWritten, ReturnedRefused, CallFallback,
     WriteInstr
<1>. QED
  BY <1>2, <1>4, <1>5, <1>6, <1>7, <1>8, <1>9 DEF Next, Walk, Terminated, vars

(* A function was begun exactly when its path is listed.                   *)
LEMMA BegunListed ==
  ASSUME TypeOK, WriterInv, NEW f
  PROVE  f \in E!Begun <=> Listed(f)
<1>1. DOMAIN files = DOMAIN gvDisassembleFilePaths
  BY DEF TypeOK, WriterInv
<1>2. \A i \in DOMAIN Opened : WritesOwn(Opened[i])
  BY DEF WriterInv, OneWriterPerFile, WritesOwn
<1>3. f \in E!Begun <=>
        \/ \E i \in DOMAIN Opened : Opened[i].start = f
        \/ \E k \in DOMAIN files : files[k].closed /\ StartOf(k) = f
        \/ \E k \in DOMAIN files : ~ files[k].created /\ StartOf(k) = f
  BY DEF E!Begun, FinishedStarts, LostStarts
<1>4. ASSUME Listed(f) PROVE f \in E!Begun
  <2>1. PICK k \in DOMAIN files : StartOf(k) = f
    BY <1>1, <1>4 DEF Listed, StartOf
  <2>2. CASE files[k].created /\ ~ files[k].closed
    <3>1. PICK i \in DOMAIN Opened : Opened[i].file = k
      BY <2>2 DEF WriterInv, OneWriterPerFile
    <3>2. Opened[i].start = f
      BY <1>2, <2>1, <3>1 DEF WritesOwn, StartOf
    <3>. QED  BY <1>3, <3>2
  <2>. QED  BY <1>3, <2>1, <2>2
<1>5. ASSUME f \in E!Begun PROVE Listed(f)
  BY <1>1, <1>2, <1>3, <1>5 DEF WritesOwn, Listed, StartOf
<1>. QED  BY <1>4, <1>5

LEMMA ActiveType ==
  ASSUME TypeOK
  PROVE  /\ Active \in Seq(Addr)
         /\ Len(Active) = Len(Opened)
         /\ DOMAIN Active = DOMAIN Opened
<1>1. Opened \in Seq(Frame)
  BY OpenedType
<1>2. ASSUME NEW i \in 1 .. Len(Opened) PROVE Opened[i].start \in Addr
  <2>1. Opened[i] \in Frame
    BY <1>1, ElementOfSeq
  <2>. QED  BY <2>1 DEF Frame
<1>3. DOMAIN Opened = 1 .. Len(Opened) /\ Len(Opened) \in Nat
  BY <1>1
<1>4. Active \in [1 .. Len(Opened) -> Addr]
  BY <1>2, <1>3 DEF Active
<1>5. Active \in Seq(Addr)
  BY <1>3, <1>4, SeqDef
<1>. QED  BY <1>3, <1>4, <1>5

(* A step within the activations and files that exist.                     *)
LEMMA QuietMaps ==
  ASSUME TypeOK, TypeOK', SameOpened, SameFiles, UNCHANGED gvDisassembleFilePaths
  PROVE  UNCHANGED <<Active, FinishedStarts, LostStarts>>
<1>1. /\ Opened \in Seq(Frame) /\ Opened' \in Seq(Frame)
      /\ files \in Seq(File) /\ files' \in Seq(File)
  BY OpenedType DEF TypeOK
<1>2. DOMAIN Opened' = DOMAIN Opened /\ DOMAIN files' = DOMAIN files
  BY <1>1 DEF SameOpened, SameFiles
<1>3. Active' = Active
  BY <1>1, <1>2 DEF Active, SameOpened
<1>4. /\ {k \in DOMAIN files' : files'[k].closed} =
           {k \in DOMAIN files : files[k].closed}
      /\ {k \in DOMAIN files' : ~ files'[k].created} =
           {k \in DOMAIN files : ~ files[k].created}
  BY <1>1, <1>2 DEF SameFiles
<1>. QED  BY <1>3, <1>4 DEF FinishedStarts, LostStarts, StartOf

(* The steps of Extraction, one per kind of step of the walk.              *)
LEMMA OpenBegins ==
  ASSUME CodeAddress = Addr, Known, Known', RootFirst, EnterOpen
  PROVE  E!Next
<1>1. /\ TypeOK /\ TypeOK' /\ WriterInv /\ WriterInv' /\ DepthBounded
      /\ cur \in Frame /\ cur.start \in Addr
  BY DEF Known, TypeInv, DepthInv, TypeOK, Frame
<1>2. /\ Opened = stack /\ Opened' = Append(stack, cur')
      /\ stack \in Seq(Frame) /\ Len(stack) \in Nat
      /\ files \in Seq(File) /\ gvDisassembleFilePaths \in Seq(Path)
  BY <1>1 DEF TypeOK, EnterOpen, Opened
<1>. PICK f \in Addr : f = cur.start
  BY <1>1
<1>0. cur'.start = f
  BY <1>1 DEF EnterOpen, Frame
<1>3. E!Eligible(f)
  <2>1. ~ Listed(f) /\ cur.depth <= gdwMaxCallNumber
    BY <1>1, DisasmConstants DEF EnterOpen, EntryCode, gvdwIgnoreCallAddress, Frame
  <2>2. f \notin E!Begun
    BY <1>1, <2>1, BegunListed
  <2>3. Len(Active) <= gdwMaxCallNumber
    BY <1>1, <1>2, <2>1, ActiveType DEF EnterOpen, DepthBounded
  <2>4. ASSUME Active = <<>> PROVE E!Begun = {}
    <3>1. stack = <<>>
      BY <1>1, <1>2, <2>4, ActiveType
    <3>2. files = <<>>
      BY <3>1 DEF EnterOpen, RootFirst
    <3>3. \A g : ~ Listed(g)
      BY <1>1, <1>2, <3>2 DEF WriterInv, Listed
    <3>. QED  BY <1>1, <3>3, BegunListed
  <2>. QED  BY <2>2, <2>3, <2>4 DEF E!Eligible, Active
<1>4. Active' = Append(Active, f)
  <2>1. /\ DOMAIN Opened = 1 .. Len(stack)
        /\ DOMAIN Opened' = 1 .. Len(stack) + 1
        /\ \A i \in 1 .. Len(stack) : Opened'[i] = Opened[i]
        /\ Opened'[Len(stack) + 1] = cur'
    BY <1>2
  <2>2. Active \in Seq(Addr) /\ Len(Active) = Len(stack)
    BY <1>1, <1>2, ActiveType
  <2>3. /\ DOMAIN Append(Active, f) = 1 .. Len(stack) + 1
        /\ \A i \in 1 .. Len(stack) : Append(Active, f)[i] = Active[i]
        /\ Append(Active, f)[Len(stack) + 1] = f
        /\ Append(Active, f) \in [1 .. Len(stack) + 1 -> Addr]
    <3>1. /\ Append(Active, f) \in Seq(Addr)
          /\ Len(Append(Active, f)) = Len(stack) + 1
          /\ \A i \in 1 .. Len(stack) : Append(Active, f)[i] = Active[i]
          /\ Append(Active, f)[Len(stack) + 1] = f
      BY <2>2, AppendProperties
    <3>. QED  BY <3>1, LenProperties
  <2>4. Active' = [i \in 1 .. Len(stack) + 1 |-> Opened'[i].start]
    BY <2>1 DEF Active
  <2>5. \A i \in 1 .. Len(stack) + 1 :
          Opened'[i].start = Append(Active, f)[i]
    BY <1>0, <2>1, <2>3 DEF Active
  <2>. QED  BY <2>3, <2>4, <2>5
<1>5. UNCHANGED <<FinishedStarts, LostStarts>>
  <2>. DEFINE n == Len(files) + 1
  <2>1. /\ DOMAIN files' = DOMAIN files \cup {n} /\ n \notin DOMAIN files
        /\ \A k \in DOMAIN files : files'[k] = files[k]
        /\ ~ files'[n].closed /\ files'[n].created
    BY <1>2 DEF EnterOpen
  <2>2. \A k \in DOMAIN files : gvDisassembleFilePaths'[k] = gvDisassembleFilePaths[k]
    BY <1>1, <1>2 DEF EnterOpen, ListPath, WriterInv
  <2>. HIDE DEF n
  <2>3. /\ {k \in DOMAIN files' : files'[k].closed} =
             {k \in DOMAIN files : files[k].closed}
        /\ {k \in DOMAIN files' : ~ files'[k].created} =
             {k \in DOMAIN files : ~ files[k].created}
    BY <2>1
  <2>. QED  BY <2>2, <2>3 DEF FinishedStarts, LostStarts, StartOf
<1>6. UNCHANGED <<Exported, CalledNames>>
  BY <1>1, NewFileNames DEF EnterOpen, NewFile, Exported
<1>7. E!Begin(f)
  BY <1>3, <1>4, <1>5, <1>6 DEF E!Begin, Active, Exported
<1>. QED  BY <1>7 DEF E!Next

LEMMA FailureLoses ==
  ASSUME CodeAddress = Addr, Known, Known', RootFirst, SameOpened,
         EnterCreateFails
  PROVE  E!Next
<1>1. /\ TypeOK /\ TypeOK' /\ WriterInv /\ DepthBounded
      /\ cur \in Frame /\ cur.start \in Addr
  BY DEF Known, TypeInv, DepthInv, TypeOK, Frame
<1>2. /\ Opened = stack
      /\ stack \in Seq(Frame) /\ Len(stack) \in Nat
      /\ files \in Seq(File) /\ gvDisassembleFilePaths \in Seq(Path)
      /\ Opened' \in Seq(Frame)
  BY <1>1, OpenedType DEF TypeOK, EnterCreateFails, Opened
<1>. PICK f \in Addr : f = cur.start
  BY <1>1
<1>3. E!Eligible(f)
  <2>1. ~ Listed(f) /\ cur.depth <= gdwMaxCallNumber
    BY <1>1, DisasmConstants
    DEF EnterCreateFails, EntryCode, gvdwIgnoreCallAddress, Frame
  <2>2. f \notin E!Begun
    BY <1>1, <2>1, BegunListed
  <2>3. Len(Active) <= gdwMaxCallNumber
    BY <1>1, <1>2, <2>1, ActiveType DEF EnterCreateFails, DepthBounded
  <2>4. ASSUME Active = <<>> PROVE E!Begun = {}
    <3>1. stack = <<>>
      BY <1>1, <1>2, <2>4, ActiveType
    <3>2. files = <<>>
      BY <3>1 DEF EnterCreateFails, RootFirst
    <3>3. \A g : ~ Listed(g)
      BY <1>1, <1>2, <3>2 DEF WriterInv, Listed
    <3>. QED  BY <1>1, <3>3, BegunListed
  <2>. QED  BY <2>2, <2>3, <2>4 DEF E!Eligible, Active
<1>4. UNCHANGED Active
  BY <1>2 DEF Active, SameOpened
<1>5. FinishedStarts' = FinishedStarts /\ LostStarts' = LostStarts \cup {f}
  <2>. DEFINE n == Len(files) + 1
  <2>1. /\ DOMAIN files' = DOMAIN files \cup {n} /\ n \notin DOMAIN files
        /\ \A k \in DOMAIN files : files'[k] = files[k]
        /\ ~ files'[n].closed /\ ~ files'[n].created
    BY <1>2 DEF EnterCreateFails
  <2>2. /\ \A k \in DOMAIN files : StartOf(k)' = StartOf(k)
        /\ gvDisassembleFilePaths'[n].start = f
    BY <1>1, <1>2 DEF EnterCreateFails, ListPath, WriterInv, StartOf
  <2>. HIDE DEF n
  <2>3. /\ {k \in DOMAIN files' : files'[k].closed} =
             {k \in DOMAIN files : files[k].closed}
        /\ {k \in DOMAIN files' : ~ files'[k].created} =
             {k \in DOMAIN files : ~ files[k].created} \cup {n}
    BY <2>1
  <2>4. FinishedStarts' = FinishedStarts
    BY <2>2, <2>3 DEF FinishedStarts, StartOf
  <2>5. LostStarts' = LostStarts \cup {f}
    BY <2>2, <2>3 DEF LostStarts, StartOf
  <2>. QED  BY <2>4, <2>5
<1>6. UNCHANGED <<Exported, CalledNames>>
  BY <1>1, NewFileNames DEF EnterCreateFails, NewFile, Exported
<1>7. E!Lose(f)
  BY <1>3, <1>4, <1>5, <1>6 DEF E!Lose, Active, Exported
<1>. QED  BY <1>7 DEF E!Next

LEMMA CloseFinishes ==
  ASSUME CodeAddress = Addr, Known, Known', EmitDone
  PROVE  E!Next
<1>1. /\ TypeOK /\ TypeOK' /\ WriterInv /\ cur \in Frame
  BY DEF Known, TypeInv, TypeOK
<1>2. /\ Opened = Append(stack, cur) /\ Opened' = stack
      /\ stack \in Seq(Frame) /\ Len(stack) \in Nat
      /\ files \in Seq(File)
  BY <1>1, ReturnOpened DEF TypeOK, EmitDone, Opened
<1>3. /\ DOMAIN Opened = 1 .. Len(stack) + 1
      /\ DOMAIN Opened' = 1 .. Len(stack)
      /\ \A i \in 1 .. Len(stack) : Opened'[i] = Opened[i]
      /\ Opened[Len(stack) + 1] = cur
  BY <1>1, <1>2
<1>4. /\ Active \in Seq(Addr) /\ Len(Active) = Len(stack) + 1
      /\ Active[Len(stack) + 1] = cur.start
      /\ Active # <<>>
  <2>1. Active \in Seq(Addr) /\ Len(Active) = Len(stack) + 1
    BY <1>1, <1>2, <1>3, ActiveType
  <2>2. Active[Len(stack) + 1] = cur.start
    BY <1>2, <1>3 DEF Active
  <2>. QED  BY <1>2, <2>1, <2>2
<1>5. Active' = SubSeq(Active, 1, Len(Active) - 1)
  <2>1. Active' = [i \in 1 .. Len(stack) |-> Opened[i].start]
    BY <1>3 DEF Active
  <2>2. \A i \in 1 .. Len(stack) : Active[i] = Opened[i].start
    BY <1>2, <1>3 DEF Active
  <2>3. SubSeq(Active, 1, Len(Active) - 1) = [i \in 1 .. Len(stack) |-> Active[i]]
    BY <1>2, <1>4
  <2>. QED  BY <2>1, <2>2, <2>3
<1>6. cur.file \in DOMAIN files /\ StartOf(cur.file) = cur.start
  BY <1>1, RunningFile DEF EmitDone, StartOf
<1>7. files[cur.file] \in File /\ files[cur.file].created
  <2>1. Len(stack) + 1 \in DOMAIN Opened
    BY <1>2, <1>3
  <2>. QED  BY <1>1, <1>2, <1>3, <1>6, <2>1 DEF WriterInv, OneWriterPerFile
<1>8. FinishedStarts' = FinishedStarts \cup {cur.start} /\ LostStarts' = LostStarts
  <2>1. /\ DOMAIN files' = DOMAIN files
        /\ \A k \in DOMAIN files \ {cur.file} : files'[k] = files[k]
        /\ files'[cur.file].closed /\ files'[cur.file].created
    BY <1>2, <1>6, <1>7 DEF EmitDone, File
  <2>2. \A k : StartOf(k)' = StartOf(k)
    BY DEF EmitDone, StartOf
  <2>3. /\ {k \in DOMAIN files' : files'[k].closed} =
             {k \in DOMAIN files : files[k].closed} \cup {cur.file}
        /\ {k \in DOMAIN files' : ~ files'[k].created} =
             {k \in DOMAIN files : ~ files[k].created}
    BY <1>6, <1>7, <2>1
  <2>4. FinishedStarts' = FinishedStarts \cup {cur.start}
    BY <1>6, <2>2, <2>3 DEF FinishedStarts, StartOf
  <2>5. LostStarts' = LostStarts
    BY <2>2, <2>3 DEF LostStarts, StartOf
  <2>. QED  BY <2>4, <2>5
<1>9. UNCHANGED <<Exported, CalledNames>>
  BY <1>1, ClosedNames DEF EmitDone, Exported
<1>10. E!Finish
  BY <1>2, <1>4, <1>5, <1>8, <1>9 DEF E!Finish, Active, Exported
<1>. QED  BY <1>10 DEF E!Next, Addr

LEMMA NameCalls ==
  ASSUME CodeAddress = Addr, Known, Known', ReturnCodeHonest, [Next]_vars,
         UNCHANGED <<Active, FinishedStarts, LostStarts>>
  PROVE  E!Next \/ UNCHANGED E!vars
<1>1. /\ TypeOK /\ TypeOK' /\ WriterInv /\ cur.dest \in Addr
  BY DEF Known, TypeInv, TypeOK, Frame
<1>2. ASSUME Writing PROVE Active # <<>>
  <2>1. stack \in Seq(Frame) /\ Opened = Append(stack, cur)
    BY <1>1, <1>2 DEF TypeOK, Writing, Opened
  <2>2. Len(Opened) = Len(stack) + 1 /\ Len(stack) \in Nat
    BY <2>1
  <2>. QED  BY <1>1, <2>2, ActiveType
<1>3. CASE NoName
  BY <1>3 DEF NoName, E!vars, Active
<1>4. CASE ByVariable
  <2>1. PICK a \in Addr : AddGlobalDWORDCallIntoCallAddressList(a)
                          /\ NewName(GdwName(a))
    BY <1>4 DEF ByVariable
  <2>2. gvdwCallAddress \in Seq(Addr)
    BY <1>1 DEF TypeOK
  <2>3. Exported' = Exported \cup {a}
    <3>1. CASE \E i \in DOMAIN gvdwCallAddress : gvdwCallAddress[i] = a
      BY <2>1, <3>1 DEF AddGlobalDWORDCallIntoCallAddressList, Exported
    <3>2. CASE ~ \E i \in DOMAIN gvdwCallAddress : gvdwCallAddress[i] = a
      <4>. DEFINE n == Len(gvdwCallAddress) + 1
      <4>1. /\ DOMAIN gvdwCallAddress' = DOMAIN gvdwCallAddress \cup {n}
            /\ \A i \in DOMAIN gvdwCallAddress :
                 gvdwCallAddress'[i] = gvdwCallAddress[i]
            /\ gvdwCallAddress'[n] = a
        BY <2>1, <2>2, <3>2 DEF AddGlobalDWORDCallIntoCallAddressList
      <4>. HIDE DEF n
      <4>. QED  BY <4>1 DEF Exported
    <3>. QED  BY <3>1, <3>2
  <2>4. E!CallVariable(a)
    BY <1>2, <1>4, <2>1, <2>3
    DEF ByVariable, NewName, E!CallVariable, Active, Exported, GdwName, E!GdwName
  <2>. QED  BY <2>4 DEF E!Next
<1>. PICK f \in Addr : f = cur.dest
  BY <1>1
<1>5. CASE ByLabel
  <2>1. E!CallLabel(f)
    BY <1>2, <1>5
    DEF ByLabel, NewName, E!CallLabel, Active, FunctionName, E!FunctionName
  <2>. QED  BY <2>1 DEF E!Next
<1>6. CASE ByFunction
  <2>1. Writing /\ Listed(f)
    BY <1>6 DEF ByFunction, ReturnCodeHonest, Writing
  <2>2. f \in E!Begun
    BY <1>1, <2>1, BegunListed
  <2>3. E!CallBegun(f)
    BY <1>2, <1>6, <2>1, <2>2
    DEF ByFunction, NewName, E!CallBegun, Active, FunctionName, E!FunctionName
  <2>. QED  BY <2>3 DEF E!Next
<1>. QED  BY <1>1, <1>3, <1>4, <1>5, <1>6, NamesStep

LEMMA StepMaps ==
  ASSUME CodeAddress = Addr, Known, Known', ReturnCodeHonest, RootFirst,
         [Next]_vars
  PROVE  [E!Next]_E!vars
<1>1. TypeOK /\ TypeOK'
  BY DEF Known, TypeInv
<1>2. CASE SameOpened /\ SameFiles /\ UNCHANGED gvDisassembleFilePaths
  BY <1>1, <1>2, QuietMaps, NameCalls
<1>. QED
  BY <1>1, <1>2, OpenBegins, FailureLoses, CloseFinishes, WriterStep
  DEF Known

(* Whatever the program does with its sweeps, files and the debugger, it   *)
(* begins functions one inside the other, each at most once and within the *)
(* maximum depth, finishes the innermost, and calls only what was begun,   *)
(* has a variable, or carries a label.                                     *)
THEOREM RefinesExtraction == CodeAddress = Addr /\ Spec => ImplementsExtraction
<1>1. Init => E!Init /\ RootFirst
  BY DEF Init, E!Init, RootFirst, Opened, FinishedStarts, LostStarts, CalledNames
<1>2. Known => TypeOK
  BY DEF Known, TypeInv
<1>3. TypeOK /\ RootFirst /\ [Next]_vars => RootFirst'
  BY NextRootFirst
<1>4. CodeAddress = Addr /\ Known /\ Known' /\ ReturnCodeHonest /\ RootFirst
        /\ [Next]_vars => [E!Next]_E!vars
  BY StepMaps
<1>5. CASE CodeAddress = Addr
  <2>1. Known /\ Known' /\ ReturnCodeHonest /\ RootFirst /\ [Next]_vars
          => [E!Next]_E!vars
    BY <1>4, <1>5
  <2>. QED
    BY <1>1, <1>2, <1>3, <2>1, KnownInvariant, ReturnCodesHonest, PTL
    DEF Spec, ImplementsExtraction
<1>. QED  BY <1>5
=============================================================================
