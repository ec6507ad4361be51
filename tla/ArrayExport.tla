---------------------------- MODULE ArrayExport ----------------------------
(***************************************************************************)
(* fGetArrayHEXToFile of grcasm.cpp: a range of the debuggee's memory is   *)
(* written to a file as an array of bytes, words or dwords.                *)
(***************************************************************************)
EXTENDS Integers, Sequences, SequencesExt

CONSTANT MaxLength   \* bound: the length of the range

ArrayExportConstants == MaxLength \in Nat

VARIABLES
  pc,        \* "create", "loop", "done", or "failed"
  itype,     \* TYPE_GET_BYTE_ARRAY, TYPE_GET_WORD_ARRAY or ..._DWORD_ARRAY
  lBufLen,   \* ulend - ulstart
  sizeRead,  \* how much of it could be read
  i,
  file,      \* the elements in the file, or NoFile
  kept       \* how many were in it when it was opened

vars == <<pc, itype, lBufLen, sizeRead, i, file, kept>>

Type == {1, 2, 4}

Mark(n) == [offset |-> n, bytes |-> <<>>, comma |-> FALSE, newline |-> FALSE]
NoFile == <<Mark(-1)>>
Earlier == Mark(-2)   \* what an earlier export has written

Init ==
  /\ pc = "create"
  /\ itype \in Type
  /\ lBufLen \in 0 .. MaxLength
  /\ sizeRead \in {0, lBufLen \div 2, lBufLen}
  /\ i = 0
  /\ file \in {NoFile, <<Earlier>>} /\ kept = 0

(* DeleteFileA may fail, which nobody notices.                             *)
AfterDelete == {NoFile, file}

(* OPEN_ALWAYS: a file that is still there is opened as it is.             *)
CreateFile ==
  /\ pc = "create"
  /\ pc' = "loop"
  /\ \E f \in AfterDelete : file' = IF f = NoFile THEN <<>> ELSE f
  /\ kept' = Len(file')
  /\ UNCHANGED <<itype, lBufLen, sizeRead, i>>

CreateFails ==
  /\ pc = "create"
  /\ pc' = "failed"
  /\ file' \in AfterDelete
  /\ UNCHANGED <<itype, lBufLen, sizeRead, i, kept>>

(* What is at an offset from the buffer's start: a byte of the debuggee, a *)
(* zero of the memset where it could not be read, or what lies behind.     *)
At(k) ==
  IF k < sizeRead THEN <<"debuggee", k>>
  ELSE IF k < lBufLen THEN <<"zero", k>>
  ELSE <<"heap", k>>

(* Mutant: a line is as many elements as it should be bytes.               *)
ElementMutant(k) ==
  [offset |-> k,
   bytes |-> [n \in 1 .. itype |-> At(k + n - 1)],
   comma |-> k # 0,
   newline |-> k # 0 /\ (k \div itype) % 16 = 0]

Element(k) ==
  [offset |-> k,
   bytes |-> [n \in 1 .. itype |-> At(k + n - 1)],
   comma |-> k # 0,
   newline |-> k # 0 /\ k % 16 = 0]

(* Every element is written at the end of the file.                        *)
WriteElement ==
  /\ pc = "loop" /\ i < lBufLen
  /\ file' = Append(file, Element(i))
  /\ i' = i + itype
  /\ UNCHANGED <<pc, itype, lBufLen, sizeRead, kept>>

Close ==
  /\ pc = "loop" /\ i >= lBufLen
  /\ pc' = "done"
  /\ UNCHANGED <<itype, lBufLen, sizeRead, i, file, kept>>

Next == CreateFile \/ CreateFails \/ WriteElement \/ Close

Spec == Init /\ [][Next]_vars

----------------------------------------------------------------------------
(* Properties.                                                             *)

(* What this export has written.                                           *)
Own == [n \in 1 .. Len(file) - kept |-> file[kept + n]]

(* The bytes of the elements are those of the range, each once and in      *)
(* order; if the range is no whole number of elements the last one is      *)
(* filled up with what lies behind the buffer, and only then is anything   *)
(* taken from there.  If the old file could not be deleted what it has     *)
(* stays in front (grcasm.cpp:1177-1258).                                  *)
ExportedWhole ==
  pc = "done" =>
    LET all == FlattenSeq([n \in DOMAIN Own |-> Own[n].bytes]) IN
    /\ Len(all) \in lBufLen .. lBufLen + itype - 1 /\ Len(all) % itype = 0
    /\ all = [n \in 1 .. Len(all) |-> At(n - 1)]
    /\ \A n \in 1 .. kept : file[n] = Earlier

(* m and n are on one line and m is the first on it.                       *)
LineOf(m, n) ==
  /\ m = 1 \/ Own[m - 1].newline
  /\ \A k \in m .. n - 1 : ~ Own[k].newline

(* A line ends where it is full and nowhere else, and none is longer: the  *)
(* first has sixteen bytes and the element behind them, whatever the       *)
(* elements are, and each later one sixteen bytes (grcasm.cpp:1202-1204,   *)
(* 1225-1227, 1248-1250).                                                  *)
LinesFull ==
  pc \in {"loop", "done"} =>
    \A m, n \in DOMAIN Own :
      m <= n /\ LineOf(m, n) =>
        LET bytes == (n - m + 1) * itype
            full == IF m = 1 THEN 16 + itype ELSE 16
        IN  bytes <= full /\ (Own[n].newline <=> bytes = full)

(* The exported text has every byte, in lines that end where they should.  *)
ExportRight == ExportedWhole /\ LinesFull
=============================================================================
