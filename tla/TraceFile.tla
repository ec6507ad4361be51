----------------------------- MODULE TraceFile -----------------------------
(***************************************************************************)
(* One file that is traced to (TraceLog.cpp), replaced (MyWriteFile) and   *)
(* read (ReadFileA) by callers that know nothing of each other.  No call   *)
(* is locked against another: what keeps them apart is how each shares the *)
(* file it opens.                                                          *)
(***************************************************************************)
EXTENDS Integers, Sequences, FiniteSets

CONSTANTS
  Tracers, Writers, Readers,  \* the callers of each kind
  Strings,                    \* the tracers that call fTraceLogStringToFile
  CharSize,                   \* sizeof(TCHAR): 2 in a Unicode build
  Length,                     \* the bytes of what each caller writes
  MaxCalls,                   \* bound: the calls of a caller
  MaxFull                     \* bound: the times the disk becomes full

TraceFileConstants ==
  /\ Tracers \intersect Writers = {}
  /\ (Tracers \union Writers) \intersect Readers = {}
  /\ Strings \subseteq Tracers /\ CharSize \in {1, 2}
  /\ \A c \in Tracers \union Writers : Length[c] \in Nat
  /\ \A c \in Strings : Length[c] % CharSize = 0
  /\ MaxCalls \in Nat /\ MaxFull \in Nat

Callers == Tracers \union Writers \union Readers

VARIABLES
  file,      \* the bytes the file consists of
  full,      \* the disk has no room: WriteFile writes nothing
  fills,
  pc,        \* "idle", or the call each caller makes next
  calls,     \* the calls each caller has begun
  position,  \* a tracer's file position; how much a writer has written
  result,    \* what a reader has got: its buffer, or Failed
  lone       \* the texts traced with no other tracer about to write

vars == <<file, full, fills, pc, calls, position, result, lone>>

Failed == <<<<"failed", 0, 0>>>>

(* The text of a caller's n-th call.                                       *)
Text(c, n) == [k \in 1 .. Length[c] |-> <<c, n, k>>]

Init ==
  /\ file = <<>>
  /\ full = FALSE /\ fills = 0
  /\ pc = [c \in Callers |-> "idle"]
  /\ calls = [c \in Callers |-> 0]
  /\ position = [c \in Callers |-> 0]
  /\ result = [c \in Readers |-> Failed]
  /\ lone = {}

Goto(c, step) == pc' = [pc EXCEPT ![c] = step]

----------------------------------------------------------------------------
(* CreateFile: every handle says what it does and what it lets others do.  *)

Access(c) ==
  IF c \in Tracers THEN {"read", "write"}
  ELSE IF c \in Writers THEN {"write"} ELSE {"read"}

Shares(c) ==
  IF c \in Tracers THEN {"read", "write"}
  ELSE IF c \in Readers THEN {"read"} ELSE {}

HasOpen(c) == pc[c] # "idle"

MayOpen(c) ==
  \A d \in Callers \ {c} :
    HasOpen(d) => Access(c) \subseteq Shares(d) /\ Access(d) \subseteq Shares(c)

Begin(c) ==
  /\ pc[c] = "idle" /\ calls[c] < MaxCalls
  /\ calls' = [calls EXCEPT ![c] = @ + 1]

(* Nothing is written by a call that cannot open the file.                 *)
Refused(c) ==
  /\ Begin(c) /\ ~MayOpen(c)
  /\ result' = IF c \in Readers THEN [result EXCEPT ![c] = Failed] ELSE result
  /\ UNCHANGED <<file, full, fills, pc, position, lone>>

Close(c) ==
  /\ pc[c] = "close"
  /\ Goto(c, "idle")
  /\ UNCHANGED <<file, full, fills, calls, position, result, lone>>

----------------------------------------------------------------------------
(* fTraceLogAppend and its siblings: open, go to the end, write, close.    *)

OpenAlways(c) ==
  /\ Begin(c) /\ MayOpen(c)
  /\ Goto(c, "seek")
  /\ UNCHANGED <<file, full, fills, position, result, lone>>

(* Mutant: the end is not looked for.                                      *)
SeekEndMutant(c) ==
  /\ pc[c] = "seek"
  /\ position' = [position EXCEPT ![c] = 0]
  /\ Goto(c, "append")
  /\ UNCHANGED <<file, full, fills, calls, result, lone>>

SeekEnd(c) ==
  /\ pc[c] = "seek"
  /\ position' = [position EXCEPT ![c] = Len(file)]
  /\ Goto(c, "append")
  /\ UNCHANGED <<file, full, fills, calls, result, lone>>

(* The text s written at position p of the file.                           *)
Overwritten(p, s) ==
  SubSeq(file, 1, p) \o s \o SubSeq(file, p + Len(s) + 1, Len(file))

(* WriteFile takes bytes.  fTraceLogAppend multiplies the characters by    *)
(* their size, fTraceLogBYTEToFile is given bytes, and                     *)
(* fTraceLogStringToFile hands the number of characters over as it is.     *)
Handed(c) == IF c \in Strings THEN Length[c] \div CharSize ELSE Length[c]

(* A tracer that went to the end before this text was written writes at    *)
(* the same place.  That it could not be written is noticed by nobody.     *)
AppendText(c) ==
  LET others == {d \in Tracers \ {c} : pc[d] = "append"} IN
  /\ pc[c] = "append"
  /\ file' = IF full THEN file
             ELSE Overwritten(position[c],
                              [k \in 1 .. Handed(c) |-> <<c, calls[c], k>>])
  /\ lone' = IF full \/ others # {} THEN lone
             ELSE lone \union {<<c, calls[c]>>}
  /\ Goto(c, "close")
  /\ UNCHANGED <<full, fills, calls, position, result>>

----------------------------------------------------------------------------
(* MyWriteFile: the file is emptied, then written until all is written.    *)

(* What earlier calls have left in the file is gone.                       *)
CreateAlways(c) ==
  /\ Begin(c) /\ MayOpen(c)
  /\ file' = <<>>
  /\ position' = [position EXCEPT ![c] = 0]
  /\ lone' = {}
  /\ Goto(c, "write")
  /\ UNCHANGED <<full, fills, result>>

(* Mutant: the loop does not see that all is written.                      *)
WriteForeverMutant(c) ==
  \E n \in 0 .. Length[c] - position[c] :
    /\ pc[c] = "write"
    /\ full => n = 0
    /\ n = 0 => full \/ Length[c] = 0
    /\ file' = file \o SubSeq(Text(c, calls[c]), position[c] + 1, position[c] + n)
    /\ position' = [position EXCEPT ![c] = @ + n]
    /\ Goto(c, "write")
    /\ UNCHANGED <<full, fills, calls, result, lone>>

(* A full disk takes nothing; one with room takes some of what is left.    *)
WritePart(c) ==
  \E n \in 0 .. Length[c] - position[c] :
    /\ pc[c] = "write"
    /\ full => n = 0
    /\ n = 0 => full \/ Length[c] = 0
    /\ file' = file \o SubSeq(Text(c, calls[c]), position[c] + 1, position[c] + n)
    /\ position' = [position EXCEPT ![c] = @ + n]
    /\ Goto(c, IF position[c] + n < Length[c] THEN "write" ELSE "close")
    /\ UNCHANGED <<full, fills, calls, result, lone>>

----------------------------------------------------------------------------
(* ReadFileA: the buffer is made for the size, then filled in one call.    *)

OpenExisting(c) ==
  /\ Begin(c) /\ MayOpen(c)
  /\ Goto(c, "size")
  /\ UNCHANGED <<file, full, fills, position, result, lone>>

GetFileSize(c) ==
  /\ pc[c] = "size"
  /\ position' = [position EXCEPT ![c] = Len(file)]
  /\ Goto(c, "read")
  /\ UNCHANGED <<file, full, fills, calls, result, lone>>

ReadFile(c) ==
  /\ pc[c] = "read"
  /\ \/ result' = [result EXCEPT ![c] = SubSeq(file, 1, position[c])]
     \/ result' = [result EXCEPT ![c] = Failed]
  /\ Goto(c, "close")
  /\ UNCHANGED <<file, full, fills, calls, position, lone>>

----------------------------------------------------------------------------

DiskFills ==
  /\ ~full /\ fills < MaxFull
  /\ full' = TRUE /\ fills' = fills + 1
  /\ UNCHANGED <<file, pc, calls, position, result, lone>>

RoomMade ==
  /\ full /\ full' = FALSE
  /\ UNCHANGED <<file, fills, pc, calls, position, result, lone>>

Step(c) ==
  \/ c \in Tracers /\ (SeekEnd(c) \/ AppendText(c))
  \/ c \in Writers /\ WritePart(c)
  \/ c \in Readers /\ (GetFileSize(c) \/ ReadFile(c))
  \/ Close(c)

Call(c) ==
  \/ c \in Tracers /\ OpenAlways(c)
  \/ c \in Writers /\ CreateAlways(c)
  \/ c \in Readers /\ OpenExisting(c)
  \/ Refused(c)

Next == (\E c \in Callers : Step(c) \/ Call(c)) \/ DiskFills \/ RoomMade

Spec == Init /\ [][Next]_vars /\ \A c \in Callers : WF_vars(Step(c))

----------------------------------------------------------------------------
(* Properties.                                                             *)

Holds(s) ==
  \E i \in 0 .. Len(file) - Len(s) : SubSeq(file, i + 1, i + Len(s)) = s

(* A text that was traced while no other tracer was between finding the    *)
(* end and writing there stays in the file until MyWriteFile replaces it   *)
(* (TraceLog.cpp:25-35): whole, except that of a string given to           *)
(* fTraceLogStringToFile in a build of wide characters the first half      *)
(* stays (149, 172).                                                       *)
LoneTextStays ==
  \A x \in lone :
    LET t == Text(x[1], x[2])
    IN  Holds(IF x[1] \in Strings THEN SubSeq(t, 1, Len(t) \div CharSize) ELSE t)

(* MyWriteFile says it has written the file only when the file is what it  *)
(* was given, however often a WriteFile wrote less than was left           *)
(* (FileOper.cpp:34-45).                                                   *)
WrittenWhole ==
  \A c \in Writers : pc[c] = "close" => file = Text(c, calls[c])

(* What ReadFileA returns is the file, not an older or a shorter state of  *)
(* it: nobody writes between the size and the read                         *)
(* (FileOper_2019_8_6.cpp:15-36).                                          *)
ReadWhole ==
  \A c \in Readers : pc[c] = "close" => result[c] \in {file, Failed}

(* What was traced, written and read is as long as it should be.           *)
TextsWhole == LoneTextStays /\ WrittenWhole /\ ReadWhole

(* MyWriteFile ends if the disk is not full for ever.                      *)
WriteEnds ==
  <>[]~full => \A c \in Writers : pc[c] = "write" ~> pc[c] = "close"
=============================================================================
