---------------------------- MODULE SessionProofs ---------------------------
(***************************************************************************)
(* Proofs about sessions of menu commands: whatever fails, and in whatever *)
(* order commands are given, a merged source comes with its header, and an *)
(* accepted command merges its own extraction.                             *)
(***************************************************************************)
EXTENDS Session, DisasmProofs

(* What is known of the extraction's state in a session.                   *)
ExtractionInv ==
  /\ TypeInv
  /\ WriterInv
  /\ FilesDeclared
  /\ pc = "done" => stack = <<>>

MenuInv ==
  /\ menu \in {"idle", "disasm", "header", "source"}
  /\ menu # "disasm" => pc = "done"

(* The tick, the directory and the segment are of one command, until a     *)
(* callstack command at the idle menu takes the segment.                   *)
OwnInv ==
  accepted =>
    /\ gdwTick = directory.tick /\ listsTick = gdwTick
    /\ menu # "idle" => codeSeg = directory.sel
    /\ menu \in {"idle", "source"} /\ header.there =>
         /\ header.dir = directory
         /\ header.seg = directory.sel
         /\ header.tick = gdwTick

DeclaredNames == {gvDisassembleFunctionDeclaration[i] :
                    i \in DOMAIN gvDisassembleFunctionDeclaration}

(* Between the two files the header is what the source will be made from.  *)
FitInv ==
  /\ menu = "source" =>
       /\ header.there
       /\ header.dir = directory /\ header.seg = codeSeg /\ header.tick = listsTick
       /\ header.functions = DeclaredNames
       /\ header.variables = GdwVariables
  /\ SourceFitsHeader

Inv == ExtractionInv /\ MenuInv /\ OwnInv /\ FitInv

----------------------------------------------------------------------------

LEMMA EmptyExtraction ==
  /\ SessionInit => ExtractionInv
  /\ ExtractionInv /\ MenuInv /\ DisasmStart => ExtractionInv'
<1>1. ASSUME SessionInit PROVE ExtractionInv
  <2>1. DebuggerTypeOK
    BY <1>1, DebuggerConstants DEF SessionInit, DebuggerInit, DebuggerTypeOK, IsImage
  <2>2. cur \in Frame
    BY <1>1, ActivationType DEF SessionInit, Addr
  <2>3. TypeInv
    BY <1>1, <2>1, <2>2 DEF SessionInit, TypeInv, TypeOK, DestNonzero, Locations
  <2>4. WriterInv /\ FilesDeclared
    BY <1>1 DEF SessionInit, WriterInv, OneWriterPerFile, Opened, FilesDeclared
  <2>. QED  BY <1>1, <2>3, <2>4 DEF SessionInit, ExtractionInv
<1>2. ASSUME ExtractionInv, MenuInv, DisasmStart PROVE ExtractionInv'
  <2>1. stack = <<>> /\ stack' = <<>> /\ pc' = "enter"
    BY <1>2 DEF ExtractionInv, MenuInv, DisasmStart
  <2>2. cur' \in Frame
    BY <1>2, DisasmConstants, ActivationType DEF DisasmStart, Range32
  <2>3. TypeInv'
    BY <1>2, <2>1, <2>2 DEF DisasmStart, ClearLists, ExtractionInv, TypeInv, TypeOK,
       DebuggerTypeOK, DestNonzero, Locations, debugger
  <2>4. WriterInv' /\ FilesDeclared'
    BY <1>2, <2>1 DEF DisasmStart, ClearLists, WriterInv, OneWriterPerFile, Opened,
       FilesDeclared
  <2>. QED  BY <2>1, <2>3, <2>4 DEF ExtractionInv
<1>. QED  BY <1>1, <1>2

(* The walk is done when its outermost activation returns.                 *)
LEMMA DoneStep ==
  ASSUME pc = "done" => stack = <<>>, [Next]_vars
  PROVE  pc' = "done" => stack' = <<>>
<1>1. ASSUME NEW code, Return(code), pc' = "done" PROVE stack' = <<>>
  BY <1>1 DEF Return
<1>2. CASE Enter
  BY <1>1, <1>2 DEF Enter, EnterRefused, EnterCreateFails, EnterOpen
<1>3. CASE Scan
  BY <1>3 DEF Scan, ScanPlain, ScanTable, ScanTableEntry, ScanTableEnd, ScanDone
<1>4. CASE Emit
  BY <1>1, <1>4 DEF Emit, EmitPlain, EmitCallBig, EmitCall, EmitDone, WriteInstr
<1>5. CASE Query
  BY <1>5 DEF Query, PostAnalysis, QueryKnown, QueryRetry, QueryFailed,
     CallFallback, WriteInstr
<1>6. CASE Trim
  BY <1>6 DEF Trim, TrimStep, TrimAtInt3, TrimWhole, Recurse
<1>7. CASE Returned
  BY <1>7 DEF Returned, ReturnedWritten, ReturnedRefused, CallFallback, WriteInstr
<1>. QED
  BY <1>2, <1>3, <1>4, <1>5, <1>6, <1>7 DEF Next, Walk, Terminated, vars, walk

(* The steps of the walk and of the debugger, and those that leave both.   *)
LEMMA ExtractionStep == ExtractionInv /\ [Next]_vars => ExtractionInv'
<1>. SUFFICES ASSUME ExtractionInv, [Next]_vars PROVE ExtractionInv'
  OBVIOUS
<1>1. TypeInv' /\ TypeOK /\ TypeOK'
  BY NextTypeInv DEF ExtractionInv, TypeInv
<1>2. WriterInv'
  BY <1>1, WriterStep, QuietWriter, LostWriter, OpenWriter, CloseWriter
  DEF ExtractionInv
<1>3. FilesDeclared'
  BY <1>1, NextFilesDeclared DEF ExtractionInv
<1>4. pc' = "done" => stack' = <<>>
  BY DoneStep DEF ExtractionInv
<1>. QED  BY <1>1, <1>2, <1>3, <1>4 DEF ExtractionInv

(* A callstack command leaves only analyses that are queued.               *)
LEMMA CallStackExtraction == ExtractionInv /\ CallStackCommand => ExtractionInv'
<1>. SUFFICES ASSUME ExtractionInv, CallStackCommand PROVE ExtractionInv'
  OBVIOUS
<1>1. image.funcs \subseteq Range32
  BY DebuggerConstants DEF ExtractionInv, TypeInv, TypeOK, DebuggerTypeOK, IsImage
<1>2. pending' \subseteq Addr
  BY <1>1 DEF CallStackCommand, ExtractionInv, TypeInv, TypeOK, DebuggerTypeOK, Range32
<1>3. UNCHANGED <<image, patches, known, walk, lists>>
  BY DEF CallStackCommand
<1>4. TypeInv'
  BY <1>2, <1>3 DEF ExtractionInv, TypeInv, TypeOK, DebuggerTypeOK, DestNonzero, walk, lists
<1>5. WriterInv' /\ FilesDeclared' /\ (pc' = "done" => stack' = <<>>)
  BY <1>3 DEF ExtractionInv, WriterInv, OneWriterPerFile, Opened, FilesDeclared,
     Declared, walk, lists
<1>. QED  BY <1>4, <1>5 DEF ExtractionInv

----------------------------------------------------------------------------

LEMMA InitInv == SessionInit => Inv
BY EmptyExtraction
DEF SessionInit, Inv, MenuInv, OwnInv, FitInv, SourceFitsHeader, Nothing

(* What is merged into the source was declared in the header.              *)
LEMMA SourceFits == Inv /\ MergeSource => FitInv'
<1>. SUFFICES ASSUME Inv, MergeSource PROVE FitInv'
  OBVIOUS
<1>1. PICK unread \in SUBSET DOMAIN files :
        source' = [there |-> TRUE, dir |-> directory, seg |-> codeSeg,
                   tick |-> listsTick,
                   functions |-> {FunctionName(gvDisassembleFilePaths[k].start) :
                                    k \in {i \in DOMAIN files \ unread : Readable(i)}},
                   variables |-> GdwVariables]
  BY DEF MergeSource
<1>2. ASSUME NEW k \in DOMAIN files, Readable(k)
      PROVE  FunctionName(gvDisassembleFilePaths[k].start) \in DeclaredNames
  BY <1>2 DEF Inv, ExtractionInv, FilesDeclared, Readable, Declared, DeclaredNames
<1>3. source'.functions \subseteq DeclaredNames
  BY <1>1, <1>2
<1>4. /\ header' = header /\ menu = "source" /\ menu' = "idle"
  BY DEF MergeSource
<1>. QED  BY <1>1, <1>3, <1>4 DEF Inv, FitInv, SourceFitsHeader

LEMMA StepInv == Inv /\ [SessionNext]_svars => Inv'
<1>. SUFFICES ASSUME Inv, [SessionNext]_svars PROVE Inv'
  OBVIOUS
<1>1. CASE DisasmRefused \/ DisasmNoDirectory \/ MergeHeader \/ MergeFails
           \/ ToggleDebugging \/ Tick \/ UNCHANGED svars
  <2>1. UNCHANGED vars
    BY <1>1 DEF DisasmRefused, DisasmNoDirectory, MergeHeader, MergeFails,
       ToggleDebugging, Tick, svars
  <2>2. ExtractionInv'
    BY <2>1, ExtractionStep DEF Inv
  <2>3. UNCHANGED <<pc, gvDisassembleFunctionDeclaration, gvdwCallAddress>>
    BY <2>1 DEF vars, walk, lists
  <2>4. MenuInv'
    BY <1>1, <2>3 DEF Inv, MenuInv, DisasmRefused, DisasmNoDirectory, MergeHeader,
       MergeFails, ToggleDebugging, Tick, svars, plugin
  <2>5. OwnInv'
    <3>1. CASE DisasmRefused \/ DisasmNoDirectory
      BY <3>1 DEF OwnInv, DisasmRefused, DisasmNoDirectory
    <3>2. CASE MergeHeader
      BY <3>2 DEF Inv, OwnInv, MergeHeader
    <3>3. CASE MergeFails
      BY <3>3 DEF Inv, OwnInv, MergeFails, Nothing
    <3>4. CASE ToggleDebugging \/ Tick \/ UNCHANGED svars
      BY <3>4 DEF Inv, OwnInv, ToggleDebugging, Tick, svars, plugin
    <3>. QED  BY <1>1, <3>1, <3>2, <3>3, <3>4
  <2>6. FitInv'
    BY <1>1, <2>3 DEF Inv, FitInv, SourceFitsHeader, DeclaredNames, GdwVariables,
       DisasmRefused, DisasmNoDirectory, MergeHeader, MergeFails, ToggleDebugging,
       Tick, svars, plugin, Nothing
  <2>. QED  BY <2>2, <2>4, <2>5, <2>6 DEF Inv
<1>2. CASE DisasmStart
  <2>1. ExtractionInv'
    BY <1>2, EmptyExtraction DEF Inv
  <2>2. MenuInv' /\ OwnInv'
    BY <1>2 DEF DisasmStart, MenuInv, OwnInv
  <2>3. FitInv'
    BY <1>2 DEF DisasmStart, Inv, FitInv, SourceFitsHeader
  <2>. QED  BY <2>1, <2>2, <2>3 DEF Inv
<1>3. CASE Extract
  <2>1. ExtractionInv'
    BY <1>3, ExtractionStep DEF Extract, Inv, Next
  <2>2. MenuInv' /\ OwnInv'
    BY <1>3 DEF Extract, Inv, MenuInv, OwnInv
  <2>3. FitInv'
    BY <1>3 DEF Extract, Inv, FitInv, SourceFitsHeader
  <2>. QED  BY <2>1, <2>2, <2>3 DEF Inv
<1>4. CASE MergeSource
  <2>1. UNCHANGED vars
    BY <1>4 DEF MergeSource
  <2>2. ExtractionInv'
    BY <2>1, ExtractionStep DEF Inv
  <2>3. MenuInv' /\ OwnInv'
    BY <1>4, <2>1 DEF MergeSource, Inv, MenuInv, OwnInv, vars, walk
  <2>. QED  BY <1>4, <2>2, <2>3, SourceFits DEF Inv
<1>5. CASE CallStackCommand
  <2>1. ExtractionInv'
    BY <1>5, CallStackExtraction DEF Inv
  <2>2. MenuInv' /\ OwnInv' /\ FitInv'
    BY <1>5 DEF CallStackCommand, Inv, MenuInv, OwnInv, FitInv, SourceFitsHeader, walk
  <2>. QED  BY <2>1, <2>2 DEF Inv
<1>6. CASE DebuggerNext /\ UNCHANGED <<walk, lists, plugin>>
  <2>1. ExtractionInv'
    BY <1>6, ExtractionStep DEF Inv, Next
  <2>2. MenuInv' /\ OwnInv' /\ FitInv'
    BY <1>6 DEF Inv, MenuInv, OwnInv, FitInv, SourceFitsHeader, DeclaredNames,
       GdwVariables, walk, lists, plugin
  <2>. QED  BY <2>1, <2>2 DEF Inv
<1>. QED  BY <1>1, <1>2, <1>3, <1>4, <1>5, <1>6 DEF SessionNext, Command

LEMMA SessionInvariant == SessionSpec => []Inv
BY InitInv, StepInv, PTL DEF SessionSpec

(* Whatever directory, file or read fails, and in whatever order commands  *)
(* are given, a merged source has its header and defines nothing that the  *)
(* header does not declare (grcasm.cpp:1267-1336, plugin.cpp:209-232).     *)
THEOREM SourceHasHeader == SessionSpec => []SourceFitsHeader
<1>1. Inv => SourceFitsHeader
  BY DEF Inv, FitInv
<1>. QED  BY <1>1, SessionInvariant, PTL

(* An accepted command merges its own extraction: directory, segment and   *)
(* tick are those of one command (plugin.cpp:34-60, 75-99, 209-232).       *)
THEOREM MergesOwn == SessionSpec => []AcceptedMergeIsOwn
<1>1. Inv => AcceptedMergeIsOwn
  BY DEF Inv, OwnInv, AcceptedMergeIsOwn
<1>. QED  BY <1>1, SessionInvariant, PTL

----------------------------------------------------------------------------
(* The merged pair links, with a file system that does not fail.           *)

(* Only functions whose file is listed are declared.                       *)
OnlyFiles ==
  \A i \in DOMAIN gvDisassembleFunctionDeclaration :
    \E k \in DOMAIN files :
      gvDisassembleFunctionDeclaration[i] =
        FunctionName(gvDisassembleFilePaths[k].start)

LinesInv ==
  /\ Known /\ CalleeLinked /\ ReturnCodeHonest /\ FilesDeclared /\ CallsAnchored
  /\ AllCreated /\ OnlyFiles

(* While no command runs, the merged files are what the lists say: those of*)
(* the last extraction, until the next one clears them.                    *)
LinkInv ==
  menu = "idle" /\ source.there =>
    /\ header.tick = source.tick
    /\ header.functions = DeclaredNames /\ source.functions = DeclaredNames
    /\ header.variables = GdwVariables /\ source.variables = GdwVariables

LEMMA NextOnlyFiles ==
  ASSUME TypeOK, TypeOK', WriterInv, WriterInv', OnlyFiles, [Next]_vars
  PROVE  OnlyFiles'
<1>1. /\ files \in Seq(File) /\ files' \in Seq(File)
      /\ gvDisassembleFilePaths \in Seq(Path)
      /\ gvDisassembleFunctionDeclaration \in Seq(Name)
      /\ Len(files) = Len(gvDisassembleFilePaths)
      /\ Len(files') = Len(gvDisassembleFilePaths')
      /\ gvDisassembleFilePaths' \in Seq(Path)
  BY DEF TypeOK, WriterInv
<1>2. \A k \in DOMAIN files : /\ k \in DOMAIN files'
                              /\ gvDisassembleFilePaths'[k] = gvDisassembleFilePaths[k]
  BY <1>1, FileStays
<1>3. CASE UNCHANGED gvDisassembleFunctionDeclaration
  BY <1>2, <1>3 DEF OnlyFiles
<1>4. CASE EnterOpen
  <2>. DEFINE n == Len(files) + 1
              d == Len(gvDisassembleFunctionDeclaration) + 1
  <2>1. /\ gvDisassembleFunctionDeclaration' =
             Append(gvDisassembleFunctionDeclaration, FunctionName(cur.start))
        /\ gvDisassembleFilePaths' =
             Append(gvDisassembleFilePaths,
                    [start |-> cur.start, end |-> cur.end, depth |-> cur.depth])
        /\ Len(files') = Len(files) + 1
    BY <1>1, <1>4 DEF EnterOpen, ListPath
  <2>2. n \in DOMAIN files' /\ gvDisassembleFilePaths'[n].start = cur.start
    BY <1>1, <2>1
  <2>3. /\ DOMAIN gvDisassembleFunctionDeclaration' =
             DOMAIN gvDisassembleFunctionDeclaration \cup {d}
        /\ gvDisassembleFunctionDeclaration'[d] = FunctionName(cur.start)
        /\ \A i \in DOMAIN gvDisassembleFunctionDeclaration :
             gvDisassembleFunctionDeclaration'[i] = gvDisassembleFunctionDeclaration[i]
    BY <1>1, <2>1
  <2>. HIDE DEF n, d
  <2>. QED  BY <1>2, <2>2, <2>3 DEF OnlyFiles
<1>. QED  BY <1>3, <1>4, DeclarationStep

LEMMA NextLinesInv ==
  ASSUME ~ CreateMayFail, LinesInv, [Next]_vars
  PROVE  LinesInv'
<1>1. TypeOK /\ WriterInv /\ TypeInv /\ DepthInv
  BY DEF LinesInv, Known, TypeInv
<1>2. TypeInv' /\ TypeOK'
  BY <1>1, NextTypeInv DEF TypeInv
<1>3. WriterInv'
  BY <1>1, <1>2, WriterStep, QuietWriter, LostWriter, OpenWriter, CloseWriter
<1>4. DepthInv'
  BY <1>1, NextDepth
<1>5. CalleeLinked' /\ ReturnCodeHonest'
  BY <1>1, NextCalleeLinked, NextHonest DEF LinesInv
<1>6. FilesDeclared' /\ CallsAnchored'
  BY <1>1, <1>2, NextFilesDeclared, NextAnchored DEF LinesInv
<1>7. AllCreated' /\ OnlyFiles'
  BY <1>1, <1>2, <1>3, NextAllCreated, NextOnlyFiles DEF LinesInv
<1>. QED  BY <1>2, <1>3, <1>4, <1>5, <1>6, <1>7 DEF LinesInv, Known

(* The lists are cleared together, so the next extraction begins as the    *)
(* first one did.                                                          *)
LEMMA StartLinesInv ==
  /\ SessionInit => LinesInv
  /\ ExtractionInv /\ MenuInv /\ DisasmStart => LinesInv'
<1>1. ASSUME SessionInit PROVE LinesInv
  <2>1. TypeInv /\ WriterInv /\ FilesDeclared
    BY <1>1, EmptyExtraction DEF ExtractionInv
  <2>2. DepthInv
    BY <1>1, DisasmConstants DEF SessionInit, DepthInv, DepthBounded, Activation
  <2>3. /\ CalleeLinked /\ ReturnCodeHonest /\ CallsAnchored
        /\ AllCreated /\ OnlyFiles
    BY <1>1 DEF SessionInit, CalleeLinked, ReturnCodeHonest, CallsAnchored,
       CalledNames, AllCreated, OnlyFiles
  <2>. QED  BY <2>1, <2>2, <2>3 DEF LinesInv, Known
<1>2. ASSUME ExtractionInv, MenuInv, DisasmStart PROVE LinesInv'
  <2>1. TypeInv' /\ WriterInv' /\ FilesDeclared'
    BY <1>2, EmptyExtraction DEF ExtractionInv
  <2>2. stack' = <<>> /\ pc' = "enter" /\ cur'.depth = 0
    BY <1>2 DEF ExtractionInv, MenuInv, DisasmStart, Activation
  <2>3. DepthInv'
    BY <2>2, DisasmConstants DEF DepthInv, DepthBounded
  <2>4. /\ files' = <<>> /\ gvDisassembleFunctionDeclaration' = <<>>
    BY <1>2 DEF DisasmStart, ClearLists
  <2>5. CalleeLinked' /\ ReturnCodeHonest'
    BY <2>2 DEF CalleeLinked, ReturnCodeHonest
  <2>6. CallsAnchored' /\ AllCreated' /\ OnlyFiles'
    BY <2>4 DEF CallsAnchored, CalledNames, AllCreated, OnlyFiles
  <2>. QED  BY <2>1, <2>3, <2>5, <2>6 DEF LinesInv, Known
<1>. QED  BY <1>1, <1>2

(* A callstack command leaves the lists alone.                             *)
LEMMA CallStackLinesInv ==
  LinesInv /\ ExtractionInv' /\ CallStackCommand => LinesInv'
<1>. SUFFICES ASSUME LinesInv, ExtractionInv', CallStackCommand PROVE LinesInv'
  OBVIOUS
<1>1. UNCHANGED <<walk, lists>>
  BY DEF CallStackCommand
<1>2. TypeInv' /\ WriterInv' /\ FilesDeclared'
  BY DEF ExtractionInv
<1>3. DepthInv' /\ CalleeLinked'
  BY <1>1 DEF LinesInv, Known, DepthInv, DepthBounded, CalleeLinked, walk
<1>4. ReturnCodeHonest'
  BY <1>1 DEF LinesInv, ReturnCodeHonest, Listed, walk, lists
<1>5. UNCHANGED CalledNames
  BY <1>1 DEF CalledNames, lists
<1>6. CallsAnchored'
  BY <1>1, <1>5 DEF LinesInv, CallsAnchored, Declared, lists
<1>7. AllCreated' /\ OnlyFiles'
  BY <1>1 DEF LinesInv, AllCreated, OnlyFiles, lists
<1>. QED  BY <1>2, <1>3, <1>4, <1>6, <1>7 DEF LinesInv, Known

(* Every file is read back, so that all that was declared is defined.      *)
LEMMA SourceLinks ==
  ASSUME ~ ReadMayFail, Inv, LinesInv, MergeSource
  PROVE  LinkInv'
<1>1. /\ source'.tick = listsTick /\ source'.variables = GdwVariables
      /\ source'.functions = {FunctionName(gvDisassembleFilePaths[k].start) :
                                k \in {i \in DOMAIN files : Readable(i)}}
  BY DEF MergeSource
<1>2. {i \in DOMAIN files : Readable(i)} = DOMAIN files
  BY DEF LinesInv, AllCreated, Readable
<1>3. source'.functions \subseteq DeclaredNames
  <2>1. \A k \in DOMAIN files :
          FunctionName(gvDisassembleFilePaths[k].start) \in DeclaredNames
    BY DEF LinesInv, AllCreated, FilesDeclared, Declared, DeclaredNames
  <2>. QED  BY <1>1, <1>2, <2>1
<1>4. DeclaredNames \subseteq source'.functions
  BY <1>1, <1>2 DEF LinesInv, OnlyFiles, DeclaredNames
<1>5. /\ menu = "source" /\ header' = header
      /\ UNCHANGED <<gvDisassembleFunctionDeclaration, gvdwCallAddress>>
  BY DEF MergeSource, vars, lists
<1>6. /\ header.tick = listsTick /\ header.functions = DeclaredNames
      /\ header.variables = GdwVariables
  BY <1>5 DEF Inv, FitInv
<1>7. UNCHANGED <<DeclaredNames, GdwVariables>>
  BY <1>5 DEF DeclaredNames, GdwVariables
<1>. QED  BY <1>1, <1>3, <1>4, <1>5, <1>6, <1>7 DEF LinkInv

LEMMA NextLinkInv ==
  ASSUME ~ CreateMayFail, ~ ReadMayFail, Inv, Inv', LinesInv, LinkInv,
         [SessionNext]_svars
  PROVE  LinesInv' /\ LinkInv'
<1>1. CASE DisasmRefused \/ DisasmNoDirectory \/ MergeHeader \/ MergeFails
           \/ ToggleDebugging \/ Tick \/ UNCHANGED svars
  <2>1. UNCHANGED vars
    BY <1>1 DEF DisasmRefused, DisasmNoDirectory, MergeHeader, MergeFails,
       ToggleDebugging, Tick, svars
  <2>2. LinesInv'
    BY <2>1, NextLinesInv
  <2>3. UNCHANGED <<DeclaredNames, GdwVariables>>
    BY <2>1 DEF DeclaredNames, GdwVariables, vars, lists
  <2>4. LinkInv'
    <3>1. CASE DisasmRefused \/ DisasmNoDirectory \/ MergeHeader
      BY <3>1 DEF LinkInv, DisasmRefused, DisasmNoDirectory, MergeHeader
    <3>2. CASE MergeFails
      BY <3>2 DEF LinkInv, MergeFails, Nothing
    <3>3. CASE ToggleDebugging \/ Tick \/ UNCHANGED svars
      BY <2>3, <3>3 DEF LinkInv, ToggleDebugging, Tick, svars, plugin
    <3>. QED  BY <1>1, <3>1, <3>2, <3>3
  <2>. QED  BY <2>2, <2>4
<1>2. CASE DisasmStart
  <2>1. LinesInv'
    BY <1>2, StartLinesInv DEF Inv
  <2>. QED  BY <1>2, <2>1 DEF DisasmStart, LinkInv
<1>3. CASE Extract
  <2>1. LinesInv'
    BY <1>3, NextLinesInv DEF Extract, Next
  <2>. QED  BY <1>3, <2>1 DEF Extract, LinkInv
<1>4. CASE MergeSource
  <2>1. LinesInv'
    BY <1>4, NextLinesInv DEF MergeSource
  <2>. QED  BY <1>4, <2>1, SourceLinks
<1>5. CASE CallStackCommand
  <2>1. LinesInv'
    BY <1>5, CallStackLinesInv DEF Inv
  <2>2. UNCHANGED <<DeclaredNames, GdwVariables>>
    BY <1>5 DEF CallStackCommand, DeclaredNames, GdwVariables, lists
  <2>. QED  BY <1>5, <2>1, <2>2 DEF CallStackCommand, LinkInv
<1>6. CASE DebuggerNext /\ UNCHANGED <<walk, lists, plugin>>
  <2>1. LinesInv'
    BY <1>6, NextLinesInv DEF Next
  <2>2. UNCHANGED <<DeclaredNames, GdwVariables>>
    BY <1>6 DEF DeclaredNames, GdwVariables, lists
  <2>. QED  BY <1>6, <2>1, <2>2 DEF LinkInv, plugin
<1>. QED  BY <1>1, <1>2, <1>3, <1>4, <1>5, <1>6 DEF SessionNext, Command

(* Where files can be created and read, a merged source defines exactly    *)
(* the functions its header declares, and the header has every name its    *)
(* CALLs use, after any sequence of commands, those that merge the lists   *)
(* of an earlier extraction again included (grcasm.cpp:1267-1336).         *)
THEOREM MergesLink ==
  ASSUME ~ CreateMayFail, ~ ReadMayFail
  PROVE  SessionSpec => []MergedLinks
<1>1. SessionInit => LinesInv /\ LinkInv
  BY StartLinesInv DEF SessionInit, LinkInv, Nothing
<1>2. Inv /\ Inv' /\ LinesInv /\ LinkInv /\ [SessionNext]_svars
        => LinesInv' /\ LinkInv'
  BY NextLinkInv
<1>3. Inv /\ LinesInv /\ LinkInv => MergedLinks
  <2>. SUFFICES ASSUME LinesInv, LinkInv, Merged PROVE MergedLinks
    BY DEF MergedLinks
  <2>1. /\ header.tick = source.tick
        /\ header.functions = DeclaredNames /\ source.functions = DeclaredNames
        /\ header.variables = GdwVariables /\ source.variables = GdwVariables
    BY DEF Merged, LinkInv
  <2>2. ASSUME NEW r \in CalledNames, r.form = "SUB" PROVE r \in DeclaredNames
    <3>1. PICK i \in DOMAIN gvDisassembleFilePaths : files[i].created => Declared(r)
      BY <2>2 DEF LinesInv, CallsAnchored
    <3>2. i \in DOMAIN files
      BY DEF LinesInv, Known, WriterInv, TypeInv, TypeOK
    <3>3. Declared(r)
      BY <3>1, <3>2 DEF LinesInv, AllCreated
    <3>. QED  BY <3>3 DEF Declared, DeclaredNames
  <2>3. ASSUME NEW r \in CalledNames, r.form = "gdw" PROVE r.n \in GdwVariables
    BY <2>3 DEF LinesInv, CallsAnchored, GdwVariables
  <2>. QED  BY <2>1, <2>2, <2>3 DEF MergedLinks
<1>. QED  BY <1>1, <1>2, <1>3, SessionInvariant, PTL DEF SessionSpec
=============================================================================
