----------------------------- MODULE UrlCoding -----------------------------
(***************************************************************************)
(* UrlEncode and UrlDecode of IString.cpp: a text is encoded, into a       *)
(* string that grows or into a buffer of a given length, and what comes    *)
(* out is decoded again.  A character is its code.                         *)
(***************************************************************************)
EXTENDS Naturals, Sequences, SequencesExt

CONSTANTS
  Codes,       \* the codes in the texts, without 0
  MaxLength,   \* bound: the length of the texts
  BufferSizes  \* cbBufLen

UrlCodingConstants ==
  /\ Codes \subseteq 1 .. 255
  /\ MaxLength \in Nat
  /\ BufferSizes \subseteq Nat \ {0}

VARIABLES
  src,      \* the text; for the buffer, in UTF-8
  size,     \* the buffer's size, or Grows
  base,     \* baseChar: the letter that stands for ten
  encoded, decoded,
  pos,      \* the position of the loop that runs
  mode      \* "encode", "decode" or "done"

input == <<src, size, base>>
vars == <<input, encoded, decoded, pos, mode>>

Grows == 0
Text == UNION {[1 .. n -> Codes] : n \in 0 .. MaxLength}

Digit == 48 .. 57
Upper == 65 .. 90
Lower == 97 .. 122
SpaceCode == 32
Plus == 43
Percent == 37

(* Minus, dot, underscore and tilde; the buffer's version keeps the colon  *)
(* and the slash as well.                                                  *)
Kept ==
  Digit \union Upper \union Lower \union {45, 46, 95, 126}
    \union (IF size = Grows THEN {} ELSE {58, 47})

ToHex(x, ten) == IF x > 9 THEN x - 10 + ten ELSE x + 48

FromHex(c) ==
  IF c \in Upper THEN c - 65 + 10
  ELSE IF c \in Lower THEN c - 97 + 10 ELSE c - 48

Init ==
  /\ src \in Text
  /\ \/ size = Grows /\ base = 65
     \/ size \in BufferSizes /\ base \in {65, 97}
  /\ encoded = <<>> /\ decoded = <<>>
  /\ pos = 1
  /\ mode = "encode"

----------------------------------------------------------------------------

Here == src[pos]

(* Mutant: no room is left for the 0 at the end.                           *)
RoomMutant(n) == size # Grows => Len(encoded) + n <= size

Room(n) == size # Grows => Len(encoded) + n <= size - 1

Encoding == mode = "encode" /\ pos <= Len(src) /\ Room(1)

Put(s) ==
  /\ encoded' = encoded \o s
  /\ pos' = pos + 1
  /\ UNCHANGED <<input, decoded, mode>>

Keep == Encoding /\ Here \in Kept /\ Put(<<Here>>)

EncodeSpace == Encoding /\ Here = SpaceCode /\ Put(<<Plus>>)

Escape ==
  /\ Encoding
  /\ Here \notin Kept \union {SpaceCode}
  /\ Room(3)
  /\ Put(<<Percent, ToHex(Here \div 16, base), ToHex(Here % 16, base)>>)

(* An escape is not begun when there is no room for all of it.             *)
EncodeEnds ==
  /\ mode = "encode"
  /\ \/ pos > Len(src) \/ ~Room(1)
     \/ /\ pos <= Len(src) /\ ~Room(3)
        /\ Here \notin Kept \union {SpaceCode}
  /\ mode' = "decode" /\ pos' = 1
  /\ UNCHANGED <<input, encoded, decoded>>

----------------------------------------------------------------------------
(* UrlDecode.                                                              *)

Decoding == mode = "decode" /\ pos <= Len(encoded)

Yield(c, n) ==
  /\ decoded' = Append(decoded, c)
  /\ pos' = pos + n
  /\ UNCHANGED <<input, encoded, mode>>

DecodePlus == Decoding /\ encoded[pos] = Plus /\ Yield(SpaceCode, 1)

DecodeEscape ==
  /\ Decoding /\ encoded[pos] = Percent
  /\ Yield((FromHex(encoded[pos + 1]) * 16 + FromHex(encoded[pos + 2])) % 256, 3)

DecodePlain ==
  /\ Decoding
  /\ encoded[pos] \notin {Plus, Percent}
  /\ Yield(encoded[pos], 1)

DecodeEnds ==
  /\ mode = "decode" /\ pos > Len(encoded)
  /\ mode' = "done"
  /\ UNCHANGED <<input, encoded, decoded, pos>>

----------------------------------------------------------------------------

Next ==
  \/ Keep \/ EncodeSpace \/ Escape \/ EncodeEnds
  \/ DecodePlus \/ DecodeEscape \/ DecodePlain \/ DecodeEnds

Spec == Init /\ [][Next]_vars

----------------------------------------------------------------------------
(* Properties.                                                             *)

(* Decoding gives back what was encoded, and of a text that did not fit    *)
(* into the buffer its beginning: no escape is cut in two                  *)
(* (IString.cpp:500-617).                                                  *)
ComesBack ==
  mode = "done" =>
    /\ IsPrefix(decoded, src)
    /\ size = Grows => decoded = src

(* The buffer holds what is written to it and the 0 behind it              *)
(* (IString.cpp:557-592).                                                  *)
FitsBuffer == size # Grows => Len(encoded) + 1 <= size

(* A text is cut short only where its next character would not fit.        *)
CutOnlyWhenFull ==
  mode = "done" /\ decoded # src =>
    LET next == src[Len(decoded) + 1]
    IN  ~Room(IF next \in Kept \union {SpaceCode} THEN 1 ELSE 3)

(* What is encoded fits, and comes back.                                   *)
EncodingRight == ComesBack /\ FitsBuffer /\ CutOnlyWhenFull
=============================================================================
