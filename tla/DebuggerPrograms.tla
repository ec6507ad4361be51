-------------------------- MODULE DebuggerPrograms --------------------------
(***************************************************************************)
(* The debuggees of the model-checking runs.  Addresses are small numbers; *)
(* 60 stands for gdwBigCallAddress, 99 for the 0xcccccccc filler.          *)
(***************************************************************************)
EXTENDS DebuggerImage, TLC

Op(op) == [Undecoded EXCEPT !.op = op]
Direct(op, to) == [Undecoded EXCEPT !.op = op, !.constant = to, !.value = to]
Near(to) == [Direct("jmp", to) EXCEPT !.e9 = TRUE]
Through(op, at, to) == [Direct(op, at) EXCEPT !.arg = "memory", !.memvalue = to]
Indexed(op, at) == [Undecoded EXCEPT !.op = op, !.arg = "memory",
                                     !.constant = at, !.scaled = TRUE]
Register(op) == [Undecoded EXCEPT !.op = op, !.value = 77]
Long(i) == [i EXCEPT !.size = 2]

Function(start, end) == [start |-> start, end |-> end]

MCBig == 60
MCSysDlls == {Function(55, 57)}
MCUninitialised == 99
MCLabelled == {50, 14}

(* A function with a shared callee, a switch over a three-entry table, a   *)
(* jump to an in-function address that carries a label, and a call into    *)
(* itself; a function with direct recursion, an int3, and a call through a *)
(* thunk that leaves the game's code; one that calls back to the first,    *)
(* jumps out of itself and into the middle of an instruction; and a        *)
(* labelled one with the calls that are not followed.                      *)
MainCode ==
  (10 :> Direct("call", 20)) @@ (11 :> Direct("jxx", 13)) @@
  (12 :> Direct("call", 30)) @@ (13 :> Op("nop")) @@
  (14 :> Indexed("jmp", 100)) @@ (15 :> Op("bytes")) @@
  (16 :> Direct("jmp", 14)) @@ (17 :> Direct("jxx", 13))
SecondCode ==
  (20 :> Direct("call", 40)) @@ (21 :> Direct("call", 20)) @@
  (22 :> Direct("call", 35)) @@ (23 :> Op("int3"))
ThunkCode == (30 :> Near(40)) @@ (35 :> Near(65))
ThirdCode ==
  (40 :> Through("call", 104, 50)) @@ (41 :> Direct("jmp", 10)) @@
  (42 :> Long(Direct("call", 10))) @@ (44 :> Direct("branch", 42)) @@
  (45 :> Direct("jxx", 43)) @@ (46 :> Register("jmp"))
LabelledCode ==
  (50 :> Through("call", 112, 99)) @@ (51 :> Direct("call", 66)) @@
  (52 :> Direct("call", 48)) @@ (53 :> Direct("call", 56))

GameImage ==
  [code  |-> MainCode @@ SecondCode @@ ThunkCode @@ ThirdCode @@ LabelledCode,
   data  |-> (100 :> 13) @@ (104 :> 15) @@ (108 :> 10) @@ (112 :> 50),
   funcs |-> {Function(10, 17), Function(20, 23), Function(40, 46),
              Function(50, 53)},
   alive |-> TRUE]

(* The same after it has rewritten a call and the end of a function.       *)
GamePatchedImage ==
  [GameImage EXCEPT !.code = (12 :> Direct("call", 35)) @@
                             (21 :> Op("int3")) @@ @]

GameSelection == {Function(10, 17)}

(* A small program for runs with many interleavings: the selection calls a *)
(* labelled and an unlabelled function, both call a third, which calls the *)
(* unlabelled one.                                                         *)
SmallImage ==
  [code  |-> (10 :> Direct("call", 20)) @@ (11 :> Direct("call", 50)) @@
             (20 :> Direct("call", 30)) @@ (21 :> Direct("jxx", 20)) @@
             (30 :> Direct("call", 20)) @@ (31 :> Op("int3")) @@
             (50 :> Direct("call", 30)),
   data  |-> (100 :> 0),
   funcs |-> {Function(10, 11), Function(20, 21), Function(30, 31),
              Function(50, 50)},
   alive |-> TRUE]

SmallPatchedImage ==
  [SmallImage EXCEPT !.code = (11 :> Direct("call", 30)) @@
                              (21 :> Op("int3")) @@ @]

(* What is left when the debuggee has ended.                               *)
GoneImage == [code |-> <<>>, data |-> <<>>, funcs |-> {}, alive |-> FALSE]

SmallSelection == {Function(10, 11)}

(* Two functions and a call the analyser does not recognise, for runs that *)
(* go through several commands.                                            *)
TinyImage ==
  [code  |-> (10 :> Direct("call", 20)) @@ (20 :> Direct("call", 48)),
   data  |-> (100 :> 0),
   funcs |-> {Function(10, 10), Function(20, 20)},
   alive |-> TRUE]

TinySelections == {Function(10, 10), Function(20, 20)}
=============================================================================
