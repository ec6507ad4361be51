------------------------------ MODULE Debugger ------------------------------
(***************************************************************************)
(* The debugger and the debuggee as the walkers meet them: a queue of      *)
(* "analr" commands that another thread works off when it likes, the       *)
(* functions registered so far, and a debuggee that keeps running and may  *)
(* rewrite its code.  Not under src/: modelled from the calls grcasm.cpp   *)
(* makes (DbgCmdExec, Script::Function::GetInfo, DbgDisasmAt).             *)
(***************************************************************************)
EXTENDS DebuggerImage

CONSTANTS
  Images,            \* the images the debuggee's code may take
  MaxPatches         \* bound on the changes of the debuggee's code

ASSUME DebuggerConstants ==
  /\ \A m \in Images : IsImage(m)
  /\ MaxPatches \in Nat

VARIABLES
  image,        \* the debuggee's code and data now
  patches,      \* how often it changed
  known,        \* the functions registered in the debugger
  pending       \* the addresses of the queued "analr" commands

debugger == <<image, patches, known, pending>>

DebuggerTypeOK ==
  /\ image \in Images
  /\ patches \in Nat
  /\ known \subseteq Range32
  /\ pending \subseteq Addr

DebuggerInit ==
  /\ image \in Images
  /\ image.alive
  /\ patches = 0
  /\ known \in SUBSET image.funcs
  /\ pending = {}

(* DbgCmdExec("analr a") queues the command; it may fail to, and the       *)
(* plugin goes on alike.                                                   *)
DbgCmdExec(a) ==
  /\ pending' \in {pending, pending \cup {a}}
  /\ UNCHANGED <<image, patches, known>>

(* The registered functions GetInfo may answer with for address a.         *)
GetInfo(a) == {f \in known : f.start <= a /\ a <= f.end}

(* An analysis registers the function recognised at the address, if any.   *)
Analyse(a) ==
  /\ a \in pending
  /\ pending' = pending \ {a}
  /\ known' = known \cup {f \in image.funcs : f.start = a}
  /\ UNCHANGED <<image, patches>>

(* The debuggee runs and rewrites its own code, or ends.                   *)
Patch ==
  /\ image.alive
  /\ patches < MaxPatches
  /\ patches' = patches + 1
  /\ image' \in Images \ {image}
  /\ UNCHANGED <<known, pending>>

DebuggerNext == (\E a \in pending : Analyse(a)) \/ Patch
=============================================================================
