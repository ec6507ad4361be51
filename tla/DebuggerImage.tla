--------------------------- MODULE DebuggerImage ---------------------------
(***************************************************************************)
(* What the plugin sees of the debuggee through the debugger: decoded      *)
(* instructions, dwords of memory, labels, the loaded system modules, and  *)
(* the functions the debugger's analyser can recognise.  The pure          *)
(* decisions grcasm.cpp takes on that view (which address a CALL leads to, *)
(* whether it is followed, what a function is called in the output) are    *)
(* operators here; the walkers that use them are separate modules.         *)
(***************************************************************************)
EXTENDS Naturals, Sequences, FiniteSets

CONSTANTS
  gdwBigCallAddress,    \* grcasm.cpp:31, the first address past the game code
  gvStructSysDllInfo,   \* [start, end] ranges of ntdll, kernel32, KernelBase
  UninitialisedDword,   \* 0xcccccccc, the filler the debugger reads as memvalue
  Labelled              \* the addresses that carry a debugger label

Addr == Nat

Range32 == [start : Addr, end : Addr]

ASSUME ImageConstants ==
  /\ gdwBigCallAddress \in Addr
  /\ gvStructSysDllInfo \subseteq Range32
  /\ UninitialisedDword \in Addr
  /\ Labelled \subseteq Addr

(***************************************************************************)
(* A DISASM_INSTR, reduced to what the plugin tests.  op classifies the    *)
(* type and the substring matches on the text: "call", "jmp", "jxx" (the   *)
(* conditional jumps grcasm.cpp:687-711 matches), "branch" (any other      *)
(* branch: jo, jno, loop), "nop", "bytes" (x87 and AVX instructions written*)
(* back as _emit), "int3" and "plain".  scaled: the operand's mnemonic     *)
(* contains '*'.  e9: the first byte is 0xE9, a near jump.                 *)
(***************************************************************************)
Ops == {"call", "jmp", "jxx", "branch", "nop", "bytes", "int3", "plain"}

Instr == [op : Ops, size : Nat, arg : {"memory", "normal"},
          constant : Addr, value : Addr, memvalue : Addr,
          scaled : BOOLEAN, e9 : BOOLEAN]

IsBranch(i) == i.op \in {"call", "jmp", "jxx", "branch"}

(* The debugger decodes what it cannot read or understand as one byte.     *)
Undecoded == [op |-> "plain", size |-> 1, arg |-> "normal", constant |-> 0,
              value |-> 0, memvalue |-> 0, scaled |-> FALSE, e9 |-> FALSE]

(* Once the debuggee is gone the debugger decodes nothing: the DISASM_INSTR *)
(* stays as the plugin zeroed it, with a size of 0.                        *)
Zeroed == [Undecoded EXCEPT !.size = 0]

(* An image m: m.code and m.data are the mapped code and dwords, m.funcs   *)
(* the functions an analysis of the image recognises, m.alive whether the  *)
(* debuggee is still there.  A decoded instruction has a byte at least.    *)
IsImage(m) ==
  /\ \A a \in DOMAIN m.code :
       /\ m.code[a] \in Instr
       /\ m.code[a].size # 0
       /\ m.code[a].e9 => m.code[a].constant # 0
  /\ \A a \in DOMAIN m.data : m.data[a] \in Addr
  /\ m.funcs \subseteq Range32
  /\ m.alive \in BOOLEAN

(* No instruction reaches into the next one: what a linker lays out.       *)
InstructionsApart(m) ==
  /\ DOMAIN m.code \subseteq Addr
  /\ \A a, b \in DOMAIN m.code : a < b => a + m.code[a].size <= b

DbgDisasmAt(m, a) ==
  IF a \in DOMAIN m.code THEN m.code[a]
  ELSE IF m.alive THEN Undecoded ELSE Zeroed

ReadDword(m, a) == IF a \in DOMAIN m.data THEN m.data[a] ELSE 0

----------------------------------------------------------------------------

(* Every push of InitIgnoreCallAddress is commented out at this commit, so *)
(* both lists are empty whenever a walk starts.                            *)
gvdwIgnoreCallAddress == {}
gvdwIATAddress == {}

IsIATAddress(a) == a \in gvdwIATAddress

(* Both ends of a module's range are inclusive.                            *)
IsAddressInSysDll(a) ==
  \E d \in gvStructSysDllInfo : d.start <= a /\ a <= d.end

(* Where a CALL leads: through a readable pointer at a fixed address, to a *)
(* fixed address, or (0) to a place only known at run time.                *)
FixedCallAddress(i) ==
  IF i.constant # i.value THEN 0
  ELSE IF i.arg = "normal" THEN i.constant
  ELSE IF i.memvalue = UninitialisedDword THEN 0 ELSE i.memvalue

(* Only the disassembler consults the IAT list.                            *)
CallJumpAddress(i) ==
  IF i.arg = "memory" /\ IsIATAddress(i.constant) THEN 0
  ELSE FixedCallAddress(i)

(* A CALL to an E9 jump is a call to the place the jump goes to.           *)
FollowThunk(m, a) ==
  IF DbgDisasmAt(m, a).e9 THEN DbgDisasmAt(m, a).constant ELSE a

IsFixedJump(i) == i.constant = i.value /\ i.constant # 0

----------------------------------------------------------------------------

(***************************************************************************)
(* Names in the generated assembly.  Every SUB, label and gdw name also    *)
(* carries gdwTick, the same for the whole extraction, so it is left out   *)
(* here.  A name of form "label" is the debugger's label of address n.     *)
(***************************************************************************)
Name == [form : {"SUB", "label", "gdw", "LABEL", "SWITCH_CASE"},
         n : Nat, k : Nat]

FunctionName(a) ==
  [form |-> IF a \in Labelled THEN "label" ELSE "SUB", n |-> a, k |-> 0]

GdwName(a) == [form |-> "gdw", n |-> a, k |-> 0]

(* Mutant: a callee that was not disassembled is called by its own name    *)
(* all the same.                                                           *)
FallbackNameMutant(a) == FunctionName(a)

(* A callee that was not disassembled is called through its label when it  *)
(* has one, and through a gdw variable otherwise.                          *)
FallbackName(a) == IF a \in Labelled THEN FunctionName(a) ELSE GdwName(a)
=============================================================================
