------------------------------ MODULE Session -------------------------------
(***************************************************************************)
(* The plugin's menu: plugin.cpp's commands, the directories they make, and*)
(* MakeDisassembleFilesIntoSingle, which gathers the files of an extraction*)
(* into one header and one source file.  The extraction in between is      *)
(* Disasm, run from the lists the previous command left; the merge runs    *)
(* after every disassemble command, also after one that was turned down.   *)
(***************************************************************************)
EXTENDS Disasm

CONSTANTS
  MaxTick,        \* bound on the clock GetTickCount reads
  ReadMayFail     \* whether a written file may fail to be read back

ASSUME SessionConstants ==
  /\ MaxTick \in Nat
  /\ ReadMayFail \in BOOLEAN

VARIABLES
  menu,           \* "idle", "disasm", "header" or "source": the command's step
  debugging,      \* DbgIsDebugging()
  now,            \* the clock
  gdwTick,        \* the clock when the last directory was named
  directory,      \* szDisassembleDirectory
  made,           \* the directories that exist
  codeSeg,        \* dwCodeSegStart, dwCodeSegEnd
  accepted,       \* whether the last disassemble command was carried out
  listsTick,      \* the tick in the names of the lists
  header,         \* the merged .h written by the last command
  source          \* its merged .cpp

plugin == <<menu, debugging, now, gdwTick, directory, made, codeSeg, accepted,
            listsTick, header, source>>
svars == <<vars, plugin>>

NoRange == [start |-> 0, end |-> 0]

(* A directory is named by the tick and the selection; before the first    *)
(* command the buffer is empty and files go to the root of the drive.      *)
Directory == [tick : Nat, sel : Range32]
Root == [tick |-> 0, sel |-> NoRange]

(* A merged file: the directory and segment in its path, the tick in its   *)
(* names, the functions (header: declared, source: defined) and variables. *)
Nothing == [there |-> FALSE, dir |-> Root, seg |-> NoRange, tick |-> 0,
            functions |-> {}, variables |-> {}]

SessionInit ==
  /\ DebuggerInit
  /\ pc = "done"
  /\ cur = Activation(0, 0, 0)
  /\ stack = <<>>
  /\ ret = 0
  /\ gvDisassembleFilePaths = <<>>
  /\ gvDisassembleFunctionDeclaration = <<>>
  /\ gvdwCallAddress = <<>>
  /\ files = <<>>
  /\ menu = "idle"
  /\ debugging \in BOOLEAN
  /\ now = 1
  /\ gdwTick = 0
  /\ directory = Root
  /\ made = {Root}
  /\ codeSeg = NoRange
  /\ accepted = FALSE
  /\ listsTick = 0
  /\ header = Nothing
  /\ source = Nothing

----------------------------------------------------------------------------
(* A "disassemble n" entry.                                                *)

(* Not debugging: a message, and on to the merge.                          *)
DisasmRefused ==
  /\ menu = "idle"
  /\ ~ debugging
  /\ menu' = "header"
  /\ accepted' = FALSE
  /\ UNCHANGED <<vars, debugging, now, gdwTick, directory, made, codeSeg,
                 listsTick, header, source>>

(* InitDisassembleDirectory names the directory before it tries to make it,*)
(* which fails when it exists already, or for any other reason.            *)
DisasmNoDirectory ==
  /\ menu = "idle"
  /\ debugging
  /\ \E sel \in Selections :
       /\ CreateMayFail \/ [tick |-> now, sel |-> sel] \in made
       /\ directory' = [tick |-> now, sel |-> sel]
  /\ gdwTick' = now
  /\ menu' = "header"
  /\ accepted' = FALSE
  /\ UNCHANGED <<vars, debugging, now, made, codeSeg, listsTick, header, source>>

(* Mutant: the declarations of the previous extraction stay.               *)
ClearListsMutant ==
  /\ gvDisassembleFilePaths' = <<>>
  /\ gvdwCallAddress' = <<>>
  /\ files' = <<>>
  /\ UNCHANGED gvDisassembleFunctionDeclaration

ClearLists ==
  /\ gvDisassembleFilePaths' = <<>>
  /\ gvDisassembleFunctionDeclaration' = <<>>
  /\ gvdwCallAddress' = <<>>
  /\ files' = <<>>

DisasmStart ==
  /\ menu = "idle"
  /\ debugging
  /\ \E sel \in Selections :
       /\ [tick |-> now, sel |-> sel] \notin made
       /\ directory' = [tick |-> now, sel |-> sel]
       /\ made' = made \cup {[tick |-> now, sel |-> sel]}
       /\ codeSeg' = sel
       /\ cur' = Activation(sel.start, sel.end, 0)
  /\ gdwTick' = now
  /\ listsTick' = now
  /\ accepted' = TRUE
  /\ ClearLists
  /\ pc' = "enter"
  /\ menu' = "disasm"
  /\ UNCHANGED <<debugger, stack, ret, debugging, now, header, source>>

Extract ==
  /\ menu = "disasm"
  /\ Walk
  /\ menu' = IF pc' = "done" THEN "header" ELSE "disasm"
  /\ UNCHANGED <<debugging, now, gdwTick, directory, made, codeSeg, accepted,
                 listsTick, header, source>>

----------------------------------------------------------------------------
(* MakeDisassembleFilesIntoSingle.                                         *)

(* A listed file can be read back unless it was never created.             *)
Readable(k) == files[k].created

GdwVariables == {gvdwCallAddress[i] : i \in DOMAIN gvdwCallAddress}

MergeHeader ==
  /\ menu = "header"
  /\ directory \in made
  /\ header' = [there |-> TRUE, dir |-> directory, seg |-> codeSeg,
                tick |-> listsTick,
                functions |-> {gvDisassembleFunctionDeclaration[i] :
                                 i \in DOMAIN gvDisassembleFunctionDeclaration},
                variables |-> GdwVariables]
  /\ source' = Nothing
  /\ menu' = "source"
  /\ UNCHANGED <<vars, debugging, now, gdwTick, directory, made, codeSeg,
                 accepted, listsTick>>

(* The source takes the bodies of all files that can be read, and goes on  *)
(* without the others.                                                     *)
MergeSource ==
  /\ menu = "source"
  /\ directory \in made
  /\ \E unread \in SUBSET DOMAIN files :
       /\ ReadMayFail \/ unread = {}
       /\ source' = [there |-> TRUE, dir |-> directory, seg |-> codeSeg,
                     tick |-> listsTick,
                     functions |-> {FunctionName(gvDisassembleFilePaths[k].start) :
                                      k \in {i \in DOMAIN files \ unread :
                                               Readable(i)}},
                     variables |-> GdwVariables]
  /\ menu' = "idle"
  /\ UNCHANGED <<vars, debugging, now, gdwTick, directory, made, codeSeg,
                 accepted, listsTick, header>>

(* Mutant: without a header the merge goes on to the source.               *)
MergeFailsMutant ==
  /\ menu \in {"header", "source"}
  /\ CreateMayFail \/ directory \notin made
  /\ header' = IF menu = "header" THEN Nothing ELSE header
  /\ source' = Nothing
  /\ menu' = IF menu = "header" THEN "source" ELSE "idle"
  /\ UNCHANGED <<vars, debugging, now, gdwTick, directory, made, codeSeg,
                 accepted, listsTick>>

(* A merged file cannot be created: the merge stops there.                 *)
MergeFails ==
  /\ menu \in {"header", "source"}
  /\ CreateMayFail \/ directory \notin made
  /\ header' = IF menu = "header" THEN Nothing ELSE header
  /\ source' = Nothing
  /\ menu' = "idle"
  /\ UNCHANGED <<vars, debugging, now, gdwTick, directory, made, codeSeg,
                 accepted, listsTick>>

----------------------------------------------------------------------------
(* Mutant: the command names a directory for the disassembler too.         *)
CallStackCommandMutant ==
  /\ menu = "idle"
  /\ debugging
  /\ \E sel \in Selections :
       codeSeg' = sel /\ directory' = [tick |-> now, sel |-> sel]
  /\ UNCHANGED <<vars, menu, debugging, now, gdwTick, made, accepted, listsTick,
                 header, source>>

(* A "callstack n" entry.  Its walk (module CallStack) shares with the     *)
(* disassembler the segment that the merged files are named after and the  *)
(* debugger, whose queue it may leave with analyses still to be done.      *)
CallStackCommand ==
  /\ menu = "idle"
  /\ debugging
  /\ codeSeg' \in Selections
  /\ \E queued \in SUBSET {f.start : f \in image.funcs} :
       pending' = pending \cup queued
  /\ UNCHANGED <<image, patches, known, walk, lists, menu, debugging, now,
                 gdwTick, directory, made, accepted, listsTick, header, source>>

(* The user starts and ends debug sessions between commands.               *)
ToggleDebugging ==
  /\ menu = "idle"
  /\ debugging' = ~ debugging
  /\ UNCHANGED <<vars, menu, now, gdwTick, directory, made, codeSeg, accepted,
                 listsTick, header, source>>

Tick ==
  /\ now < MaxTick
  /\ now' = now + 1
  /\ UNCHANGED <<vars, menu, debugging, gdwTick, directory, made, codeSeg,
                 accepted, listsTick, header, source>>

----------------------------------------------------------------------------

Command ==
  \/ DisasmRefused \/ DisasmNoDirectory \/ DisasmStart \/ Extract
  \/ MergeHeader \/ MergeSource \/ MergeFails \/ CallStackCommand

SessionNext ==
  \/ Command
  \/ ToggleDebugging
  \/ Tick
  \/ DebuggerNext /\ UNCHANGED <<walk, lists, plugin>>

(* The GUI thread finishes the command it is in; the user need not give    *)
(* another one.                                                            *)
InCommand == Extract \/ MergeHeader \/ MergeSource \/ MergeFails

SessionSpec ==
  SessionInit /\ [][SessionNext]_svars /\ WF_svars(InCommand)

----------------------------------------------------------------------------
(* Properties.                                                             *)

(* The last command ended with a merged source file.                       *)
Merged == menu = "idle" /\ source.there

(* A merged source defines exactly the functions its header declares, and  *)
(* every SUB and gdw name its CALLs use is declared there with the same    *)
(* tick, also when the merge repeats the lists of an earlier command       *)
(* (grcasm.cpp:1288-1334).  Stated for a file system that does not fail.   *)
MergedLinks ==
  Merged =>
    /\ header.tick = source.tick
    /\ header.functions = source.functions
    /\ header.variables = source.variables
    /\ \A r \in CalledNames :
         /\ r.form = "SUB" => r \in header.functions
         /\ r.form = "gdw" => r.n \in header.variables

(* Whatever fails, a merged source comes with the header it includes, from *)
(* the same directory and segment, and defines nothing the header does not *)
(* declare.                                                                *)
SourceFitsHeader ==
  source.there /\ menu # "source" =>
    /\ header.there
    /\ <<header.dir, header.seg, header.tick>> =
         <<source.dir, source.seg, source.tick>>
    /\ source.functions \subseteq header.functions
    /\ source.variables = header.variables

(* What a carried-out command merges is its own extraction: the directory, *)
(* the segment in the file names and the tick in the symbols are all those *)
(* of this command, whatever commands failed or ran before it.             *)
AcceptedMergeIsOwn ==
  accepted /\ menu = "idle" /\ header.there =>
    /\ header.dir = directory
    /\ header.seg = directory.sel
    /\ header.tick = gdwTick /\ gdwTick = directory.tick

(* A command that was turned down, "You need to be debugging to use this   *)
(* command" (plugin.cpp:83), leaves no merged file.                        *)
RefusedWritesNothing ==
  ~ accepted /\ menu = "idle" => ~ header.there

(* Every command given comes back to the menu.                             *)
CommandsEnd == (menu # "idle") ~> (menu = "idle")
=============================================================================
