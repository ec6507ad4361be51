----------------------------- MODULE Checksums -----------------------------
(***************************************************************************)
(* The two checksums of the program: Adler32 of a selection (Adler32Menu)  *)
(* and that of the packets of a ping (ParseUrl::CalCheckSum).  The loops   *)
(* run over the bytes of a buffer; the widths are parameters.              *)
(***************************************************************************)
EXTENDS Integers, Sequences

CONSTANTS
  Byte,     \* the number of values of a byte, 256
  Base,     \* 65521
  MaxSize,  \* bound: the length of a selection
  MaxPacket \* the length of the longest packet

(* The sum of the words of a packet fits into ulCheckSum, which is as wide *)
(* as two of them.                                                         *)
ChecksumsConstants ==
  /\ Byte \in Nat \ {0, 1} /\ Base \in 2 .. Byte * Byte
  /\ MaxSize \in Nat /\ MaxPacket \in 0 .. 2 * Byte * Byte - 1

VARIABLES
  loop,     \* "adler", "sum", and "adler done" or "sum done"
  data,
  index,    \* the bytes behind us
  a, b,     \* of Adler32Menu
  ulCheckSum,
  checksum  \* the result, once it is there

vars == <<loop, data, index, a, b, ulCheckSum, checksum>>

Word == Byte * Byte
NoSum == -1

Buffers(sizes) == UNION {[1 .. n -> 0 .. Byte - 1] : n \in sizes}

Init ==
  /\ \/ loop = "adler" /\ data \in Buffers(1 .. MaxSize)
     \/ loop = "sum" /\ data \in Buffers(0 .. MaxPacket)
  /\ index = 0 /\ checksum = NoSum
  /\ a = 1 /\ b = 0 /\ ulCheckSum = 0

----------------------------------------------------------------------------
(* Adler32Menu.                                                            *)

AdlerStep ==
  /\ loop = "adler" /\ index < Len(data)
  /\ a' = (a + data[index + 1]) % Base
  /\ b' = (b + a') % Base
  /\ index' = index + 1
  /\ UNCHANGED <<loop, data, ulCheckSum, checksum>>

AdlerDone ==
  /\ loop = "adler" /\ index = Len(data)
  /\ checksum' = b * Word + a
  /\ loop' = "adler done"
  /\ UNCHANGED <<data, index, a, b, ulCheckSum>>

----------------------------------------------------------------------------
(* ParseUrl::CalCheckSum.  A word has its low byte first; a last byte that *)
(* is left over counts as a low byte.                                      *)

SumWord ==
  /\ loop = "sum" /\ Len(data) - index > 1
  /\ ulCheckSum' = ulCheckSum + data[index + 1] + Byte * data[index + 2]
  /\ index' = index + 2
  /\ UNCHANGED <<loop, data, a, b, checksum>>

SumLastByte ==
  /\ loop = "sum" /\ Len(data) - index = 1
  /\ ulCheckSum' = ulCheckSum + data[index + 1]
  /\ index' = index + 1
  /\ UNCHANGED <<loop, data, a, b, checksum>>

(* The carries are added to the low word, and those that gives once more.  *)
Carried(n) == (n \div Word) + (n % Word)

(* Mutant: the carries are added once.                                     *)
FoldedMutant(n) == Carried(n) % Word

Folded(n) == (Carried(n) + Carried(n) \div Word) % Word

SumDone ==
  /\ loop = "sum" /\ index = Len(data)
  /\ checksum' = Word - 1 - Folded(ulCheckSum)
  /\ loop' = "sum done"
  /\ UNCHANGED <<data, index, a, b, ulCheckSum>>

Next == AdlerStep \/ AdlerDone \/ SumWord \/ SumLastByte \/ SumDone

Spec == Init /\ [][Next]_vars

----------------------------------------------------------------------------
(* Properties.                                                             *)

(* The sum of the first n of a row of numbers.                             *)
Total(row, n) ==
  LET sum[k \in 0 .. n] == IF k = 0 THEN 0 ELSE sum[k - 1] + row[k]
  IN  sum[n]

(* The result is Adler32 by its definition, the sum of the bytes plus one  *)
(* and the sum of those sums, each modulo Base, however often the          *)
(* remainders were taken on the way (plugin.cpp:154-161).                  *)
AdlerByDefinition ==
  loop = "adler done" =>
    LET n == Len(data) IN
    /\ checksum % Word = (1 + Total(data, n)) % Base
    /\ checksum \div Word =
         (n + Total([i \in 1 .. n |-> (n + 1 - i) * data[i]], n)) % Base

(* Who receives the packet with its checksum in the place of two zeros     *)
(* finds its sum, with all carries, to be all ones: as the words of the    *)
(* packet and the checksum come to a multiple of Word - 1                  *)
(* (ParseUrl.cpp:135-153).                                                 *)
ReceiverAccepts ==
  loop = "sum done" => (ulCheckSum + checksum) % (Word - 1) = 0

(* Both checksums are what they are meant to be.                           *)
SumsRight == AdlerByDefinition /\ ReceiverAccepts
=============================================================================
