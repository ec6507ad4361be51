----------------------------- MODULE Extraction -----------------------------
(***************************************************************************)
(* What one recursive extraction promises, without sweeps, files, or the   *)
(* debugger: functions are begun one inside the other, each at most once   *)
(* and no deeper than the maximum; a function is finished by the activation*)
(* that began it; and every name that generated code calls is that of a    *)
(* function begun before, that of a variable already exported, or a label  *)
(* of the debugger.                                                        *)
(***************************************************************************)
EXTENDS DebuggerImage

CONSTANTS
  Function,  \* the addresses of functions
  MaxDepth   \* how deep functions are begun inside one another

VARIABLES
  active,    \* the functions being written, outermost first
  finished,  \* the functions completely written
  lost,      \* the functions whose file could not be created
  exported,  \* the callees that have a gdw variable
  used       \* the names that generated CALLs use

vars == <<active, finished, lost, exported, used>>

Begun == {active[i] : i \in DOMAIN active} \cup finished \cup lost

Init ==
  /\ active = <<>>
  /\ finished = {}
  /\ lost = {}
  /\ exported = {}
  /\ used = {}

(* Only the selected function is begun outside any other.                  *)
Eligible(f) ==
  /\ f \notin Begun
  /\ active = <<>> => Begun = {}
  /\ Len(active) <= MaxDepth

Begin(f) ==
  /\ Eligible(f)
  /\ active' = Append(active, f)
  /\ UNCHANGED <<finished, lost, exported, used>>

Lose(f) ==
  /\ Eligible(f)
  /\ lost' = lost \cup {f}
  /\ UNCHANGED <<active, finished, exported, used>>

Finish ==
  /\ active # <<>>
  /\ finished' = finished \cup {active[Len(active)]}
  /\ active' = SubSeq(active, 1, Len(active) - 1)
  /\ UNCHANGED <<lost, exported, used>>

(* A call to a function that was begun, by its name.                       *)
CallBegun(f) ==
  /\ active # <<>>
  /\ f \in Begun
  /\ used' = used \cup {FunctionName(f)}
  /\ UNCHANGED <<active, finished, lost, exported>>

(* A call through a variable, defined with the call at the latest.         *)
CallVariable(f) ==
  /\ active # <<>>
  /\ exported' = exported \cup {f}
  /\ used' = used \cup {GdwName(f)}
  /\ UNCHANGED <<active, finished, lost>>

(* A call to a labelled function needs nothing of the extraction.          *)
CallLabel(f) ==
  /\ active # <<>>
  /\ f \in Labelled
  /\ used' = used \cup {FunctionName(f)}
  /\ UNCHANGED <<active, finished, lost, exported>>

Next ==
  \E f \in Function :
    \/ Begin(f) \/ Lose(f) \/ Finish
    \/ CallBegun(f) \/ CallVariable(f) \/ CallLabel(f)

Spec == Init /\ [][Next]_vars
=============================================================================
