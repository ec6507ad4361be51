---------------------------- MODULE CodingProofs ----------------------------
(***************************************************************************)
(* Proofs about the helpers that only compute.  The URL coders, for any    *)
(* text and any buffer: what is encoded is decoded again.  The checksums,  *)
(* for any bytes: they are what they are meant to be.  The export of an    *)
(* array, for any length: it is the bytes in order.  The string splitters, *)
(* for any text: they give the pieces.                                     *)
(***************************************************************************)
EXTENDS HelpersProofs

----------------------------------------------------------------------------
(* The URL coders.                                                         *)

Code == 0 .. 255

Width(c) == IF c \in Url!Kept \union {Url!SpaceCode} THEN 1 ELSE 3

(* What a character is encoded as.                                         *)
CodeOf(c) ==
  IF c \in Url!Kept THEN <<c>>
  ELSE IF c = Url!SpaceCode THEN <<Url!Plus>>
  ELSE <<Url!Percent, Url!ToHex(c \div 16, base), Url!ToHex(c % 16, base)>>

(* It stands at place p of the text e.                                     *)
StandsIn(e, c, p) ==
  /\ p > 0 /\ p + Width(c) <= Len(e) + 1
  /\ \A n \in 1 .. Width(c) : e[p + n - 1] = CodeOf(c)[n]

(* The first k characters, one behind the other, are all there is in e;    *)
(* o tells where each begins.                                              *)
LaidOut(e, o, k) ==
  /\ o \in [1 .. k + 1 -> Nat] /\ o[1] = 1 /\ o[k + 1] = Len(e) + 1
  /\ \A j \in 1 .. k :
       o[j + 1] = o[j] + Width(src[j]) /\ StandsIn(e, src[j], o[j])

(* The text ends here, or its next character does not fit.                 *)
NoMore(k) == k = Len(src) \/ ~ Url!Room(Width(src[k + 1]))

UrlType ==
  /\ src \in Seq(Codes)
  /\ bufferSize \in Nat
  /\ base \in {65, 97}
  /\ encoded \in Seq(Code)
  /\ decoded \in Seq(Code)
  /\ urlPos \in Nat \ {0}
  /\ urlMode \in {"encode", "decode", "done"}

Encodes ==
  urlMode = "encode" =>
    /\ urlPos <= Len(src) + 1 /\ decoded = <<>>
    /\ \E o : LaidOut(encoded, o, urlPos - 1)

Decodes ==
  urlMode # "encode" =>
    \E k, o :
      /\ k \in 0 .. Len(src) /\ LaidOut(encoded, o, k) /\ NoMore(k)
      /\ Len(decoded) <= k /\ urlPos = o[Len(decoded) + 1]
      /\ \A j \in 1 .. Len(decoded) : decoded[j] = src[j]
      /\ urlMode = "done" => Len(decoded) = k

UrlInv == UrlType /\ Encodes /\ Decodes /\ Url!FitsBuffer

LEMMA HexBack ==
  \A x \in 0 .. 15, ten \in {65, 97} :
    Url!ToHex(x, ten) \in Code /\ Url!FromHex(Url!ToHex(x, ten)) = x
BY DEF Url!ToHex, Url!FromHex, Url!Upper, Url!Lower, Code

LEMMA Halves ==
  \A c \in Code :
    \E q, t \in 0 .. 15 :
      q = c \div 16 /\ t = c % 16 /\ (q * 16 + t) % 256 = c
<1>. SUFFICES ASSUME NEW c \in 0 .. 255
              PROVE  \E q, t \in 0 .. 15 :
                       q = c \div 16 /\ t = c % 16 /\ (q * 16 + t) % 256 = c
  BY DEF Code
<1>1. c \div 16 \in 0 .. 15 /\ c % 16 \in 0 .. 15
  OBVIOUS
<1>2. 16 * (c \div 16) + (c % 16) = c
  OBVIOUS
<1>. PICK q, t : q = c \div 16 /\ t = c % 16
  OBVIOUS
<1>3. q \in 0 .. 15 /\ t \in 0 .. 15 /\ 16 * q + t = c
  BY <1>1, <1>2
<1>4. q * 16 + t = c /\ c % 256 = c
  BY <1>3
<1>. QED  BY <1>3, <1>4

LEMMA CodeIs ==
  ASSUME UrlType, NEW c \in Codes
  PROVE  /\ c \in Code /\ Width(c) \in {1, 3}
         /\ CodeOf(c) \in Seq(Code) /\ Len(CodeOf(c)) = Width(c)
         /\ c \in Url!Kept => Width(c) = 1 /\ CodeOf(c) = <<c>>
         /\ c \notin Url!Kept /\ c = Url!SpaceCode =>
              Width(c) = 1 /\ CodeOf(c) = <<Url!Plus>>
         /\ c \notin Url!Kept /\ c # Url!SpaceCode =>
              /\ Width(c) = 3
              /\ CodeOf(c) = <<Url!Percent, Url!ToHex(c \div 16, base),
                               Url!ToHex(c % 16, base)>>
<1>1. c \in Code
  BY CodingConstants DEF Url!UrlCodingConstants, Code
<1>2. /\ Url!ToHex(c \div 16, base) \in Code /\ Url!ToHex(c % 16, base) \in Code
      /\ Url!Percent \in Code /\ Url!Plus \in Code
  <2>1. PICK q, t \in 0 .. 15 : q = c \div 16 /\ t = c % 16
    BY ONLY <1>1, Halves
  <2>2. base \in {65, 97} /\ Url!Percent \in Code /\ Url!Plus \in Code
    BY DEF UrlType, Url!Percent, Url!Plus, Code
  <2>3. Url!ToHex(q, base) \in Code /\ Url!ToHex(t, base) \in Code
    BY ONLY <2>1, <2>2, HexBack
  <2>. QED  BY <2>1, <2>2, <2>3, Zenon
<1>3. CASE c \in Url!Kept
  BY <1>1, <1>3 DEF Width, CodeOf
<1>4. CASE c \notin Url!Kept /\ c = Url!SpaceCode
  BY <1>1, <1>2, <1>4 DEF Width, CodeOf
<1>5. CASE c \notin Url!Kept /\ c # Url!SpaceCode
  BY <1>1, <1>2, <1>5 DEF Width, CodeOf
<1>. QED  BY <1>3, <1>4, <1>5

(* What is decoded at a place where a character stands is the character.   *)
LEMMA CharacterBack ==
  ASSUME UrlType, NEW c \in Codes, NEW p \in Nat, StandsIn(encoded, c, p)
  PROVE  /\ p <= Len(encoded)
         /\ encoded[p] = Url!Plus => c = Url!SpaceCode /\ Width(c) = 1
         /\ encoded[p] = Url!Percent =>
              /\ Width(c) = 3
              /\ (Url!FromHex(encoded[p + 1]) * 16
                    + Url!FromHex(encoded[p + 2])) % 256 = c
         /\ encoded[p] \notin {Url!Plus, Url!Percent} =>
              c = encoded[p] /\ Width(c) = 1
<1>1. Len(encoded) \in Nat /\ Width(c) \in {1, 3}
  BY CodeIs DEF UrlType
<1>2. p <= Len(encoded)
  BY <1>1 DEF StandsIn
<1>3. \A n \in 1 .. Width(c) : encoded[p + n - 1] = CodeOf(c)[n]
  BY DEF StandsIn
<1>4. p + 1 - 1 = p /\ p + 2 - 1 = p + 1 /\ p + 3 - 1 = p + 2
  OBVIOUS
<1>5. Url!Plus \notin Url!Kept /\ Url!Percent \notin Url!Kept /\ Url!Plus # Url!Percent
  BY DEF Url!Kept, Url!Plus, Url!Percent, Url!Digit, Url!Upper, Url!Lower
<1>6. CASE c \in Url!Kept
  <2>1. encoded[p] = c /\ Width(c) = 1
    BY <1>3, <1>4, <1>6, CodeIs
  <2>. QED  BY <1>2, <1>5, <1>6, <2>1
<1>7. CASE c \notin Url!Kept /\ c = Url!SpaceCode
  <2>1. encoded[p] = Url!Plus /\ Width(c) = 1
    BY <1>3, <1>4, <1>7, CodeIs
  <2>. QED  BY <1>2, <1>5, <1>7, <2>1
<1>8. CASE c \notin Url!Kept /\ c # Url!SpaceCode
  <2>1. /\ Width(c) = 3 /\ encoded[p] = Url!Percent
        /\ encoded[p + 1] = Url!ToHex(c \div 16, base)
        /\ encoded[p + 2] = Url!ToHex(c % 16, base)
    BY <1>3, <1>4, <1>8, CodeIs
  <2>2. PICK x, y \in 0 .. 15 :
          x = c \div 16 /\ y = c % 16 /\ (x * 16 + y) % 256 = c
    BY Halves, CodeIs, Zenon
  <2>3. Url!FromHex(encoded[p + 1]) = x /\ Url!FromHex(encoded[p + 2]) = y
    <3>1. base \in {65, 97}
      BY DEF UrlType
    <3>2. encoded[p + 1] = Url!ToHex(x, base) /\ encoded[p + 2] = Url!ToHex(y, base)
      BY <2>1, <2>2
    <3>3. /\ Url!FromHex(Url!ToHex(x, base)) = x
          /\ Url!FromHex(Url!ToHex(y, base)) = y
      BY <3>1, HexBack, Zenon
    <3>. QED  BY ONLY <3>2, <3>3, Zenon
  <2>4. (Url!FromHex(encoded[p + 1]) * 16 + Url!FromHex(encoded[p + 2])) % 256 = c
    BY ONLY <2>2, <2>3
  <2>. QED  BY ONLY <1>2, <1>5, <2>1, <2>4
<1>. QED  BY <1>6, <1>7, <1>8

(* Another character is put behind those that are there.                   *)
LEMMA PutLaidOut ==
  ASSUME UrlType, NEW o, NEW k \in 0 .. Len(src) - 1, LaidOut(encoded, o, k),
         NEW e, e = encoded \o CodeOf(src[k + 1])
  PROVE  \E q : LaidOut(e, q, k + 1)
<1>. PICK c, w : c = src[k + 1] /\ w = CodeOf(c)
  OBVIOUS
<1>1. k \in Nat /\ k + 1 \in 1 .. Len(src) /\ c \in Codes
  BY DEF UrlType
<1>2. w \in Seq(Code) /\ Len(w) = Width(c) /\ Width(c) \in {1, 3}
  BY <1>1, CodeIs
<1>3. encoded \in Seq(Code) /\ Len(encoded) \in Nat
  BY DEF UrlType
<1>4. /\ Len(e) = Len(encoded) + Width(c)
      /\ \A n \in 1 .. Len(encoded) : e[n] = encoded[n]
      /\ \A n \in 1 .. Width(c) : e[Len(encoded) + n] = w[n]
  <2>1. e = encoded \o w
    OBVIOUS
  <2>. QED  BY ONLY <1>2, <1>3, <2>1
<1>5. /\ o \in [1 .. k + 1 -> Nat] /\ o[1] = 1 /\ o[k + 1] = Len(encoded) + 1
      /\ \A j \in 1 .. k :
           o[j + 1] = o[j] + Width(src[j]) /\ StandsIn(encoded, src[j], o[j])
  BY DEF LaidOut
<1>. DEFINE q == [j \in 1 .. k + 2 |-> IF j = k + 2 THEN Len(e) + 1 ELSE o[j]]
<1>6. /\ q \in [1 .. k + 1 + 1 -> Nat] /\ q[1] = 1 /\ q[k + 1 + 1] = Len(e) + 1
      /\ \A j \in 1 .. k + 1 : q[j] = o[j]
  BY <1>1, <1>2, <1>3, <1>4, <1>5, SMTT(30)
<1>. HIDE DEF q
<1>7. ASSUME NEW j \in 1 .. k + 1
      PROVE  q[j + 1] = q[j] + Width(src[j]) /\ StandsIn(e, src[j], q[j])
  <2>1. CASE j = k + 1
    <3>1. q[j] = Len(encoded) + 1 /\ q[j + 1] = Len(encoded) + 1 + Width(c)
      BY <1>1, <1>2, <1>3, <1>4, <1>5, <1>6, <2>1
    <3>2. \A n \in 1 .. Width(c) : q[j] + n - 1 = Len(encoded) + n
      BY <1>2, <1>3, <3>1
    <3>3. StandsIn(e, c, q[j])
      BY <1>2, <1>3, <1>4, <3>1, <3>2, SMTT(30) DEF StandsIn
    <3>. QED  BY <2>1, <3>1, <3>3
  <2>2. CASE j # k + 1
    <3>1. j \in 1 .. k /\ j + 1 \in 1 .. k + 1
      BY <1>1, <2>2
    <3>2. q[j] = o[j] /\ q[j + 1] = o[j + 1] /\ o[j] \in Nat
      BY <1>5, <1>6, <3>1
    <3>3. src[j] \in Codes /\ Width(src[j]) \in {1, 3}
      BY <1>1, <3>1, CodeIs, SMTT(30) DEF UrlType
    <3>4. StandsIn(encoded, src[j], o[j])
      BY <1>5, <3>1
    <3>. PICK d, p : d = src[j] /\ p = o[j]
      OBVIOUS
    <3>5. /\ d \in Codes /\ Width(d) \in {1, 3} /\ p \in Nat /\ p > 0
          /\ p + Width(d) <= Len(encoded) + 1
          /\ \A n \in 1 .. Width(d) : encoded[p + n - 1] = CodeOf(d)[n]
      BY <3>2, <3>3, <3>4 DEF StandsIn
    <3>6. p + Width(d) <= Len(e) + 1
      BY ONLY <1>2, <1>3, <1>4, <3>5
    <3>7. ASSUME NEW n \in 1 .. Width(d) PROVE e[p + n - 1] = CodeOf(d)[n]
      <4>1. p + n - 1 \in 1 .. Len(encoded)
        BY ONLY <1>3, <3>5, n \in 1 .. Width(d)
      <4>. QED  BY <1>4, <3>5, <4>1
    <3>8. StandsIn(e, d, p)
      BY <3>5, <3>6, <3>7 DEF StandsIn
    <3>. QED  BY <1>5, <3>1, <3>2, <3>8
  <2>. QED  BY <2>1, <2>2
<1>8. LaidOut(e, q, k + 1)
  BY <1>1, <1>6, <1>7 DEF LaidOut
<1>. QED  BY <1>8

(* What is made of the text and the buffer does not depend on the state.   *)
LEMMA SameCoding ==
  ASSUME UNCHANGED <<src, bufferSize, base>>
  PROVE  /\ \A e, o, k : LaidOut(e, o, k)' <=> LaidOut(e', o', k')
         /\ \A c : Width(c)' = Width(c')
BY DEF LaidOut, StandsIn, CodeOf, Width, Url!Kept, Url!ToHex

LEMMA InitUrl == Url!Init => UrlInv
<1>. SUFFICES ASSUME Url!Init PROVE UrlInv
  OBVIOUS
<1>1. /\ MaxLength \in Nat
      /\ bufferSize = 0 \/ bufferSize \in Nat \ {0}
      /\ base \in {65, 97}
  <2>1. BufferSizes \subseteq Nat \ {0} /\ MaxLength \in Nat
    BY CodingConstants DEF Url!UrlCodingConstants
  <2>2. (bufferSize = 0 \/ bufferSize \in BufferSizes) /\ base \in {65, 97}
    BY DEF Url!Init, Url!Grows
  <2>. QED  BY <2>1, <2>2
<1>2. src \in Seq(Codes)
  BY <1>1 DEF Url!Init, Url!Text
<1>3. UrlType
  <2>1. <<>> \in Seq(Code) /\ 1 \in Nat \ {0}
    OBVIOUS
  <2>2. encoded \in Seq(Code) /\ decoded \in Seq(Code) /\ urlPos \in Nat \ {0}
    BY <2>1 DEF Url!Init
  <2>3. bufferSize \in Nat /\ base \in {65, 97} /\ urlMode = "encode"
    BY <1>1 DEF Url!Init
  <2>. QED  BY <1>2, <2>2, <2>3 DEF UrlType
<1>4. LaidOut(<<>>, [j \in 1 .. 1 |-> 1], 0)
  BY DEF LaidOut
<1>5. /\ encoded = <<>> /\ decoded = <<>> /\ urlPos = 1 /\ urlMode = "encode"
      /\ Len(src) \in Nat
      /\ bufferSize # Url!Grows => bufferSize \in Nat \ {0}
  BY <1>1, <1>2 DEF Url!Init, Url!Grows
<1>6. Encodes
  BY <1>4, <1>5 DEF Encodes
<1>7. Decodes
  BY <1>5 DEF Decodes
<1>8. Url!FitsBuffer
  BY <1>5 DEF Url!FitsBuffer
<1>. QED  BY <1>3, <1>6, <1>7, <1>8 DEF UrlInv

(* A character is put into the text that is being encoded.                 *)
LEMMA PutStep ==
  ASSUME UrlInv, Url!Encoding, Url!Room(Width(src[urlPos])),
         Url!Put(CodeOf(src[urlPos]))
  PROVE  UrlInv'
<1>. PICK c : c = src[urlPos]
  OBVIOUS
<1>1. UrlType /\ urlMode = "encode" /\ urlPos \in 1 .. Len(src)
  BY DEF UrlInv, Url!Encoding, UrlType
<1>2. /\ encoded' = encoded \o CodeOf(c) /\ urlPos' = urlPos + 1
      /\ UNCHANGED <<src, bufferSize, base, decoded, urlMode>>
  BY DEF Url!Put, Url!input
<1>3. c \in Codes /\ CodeOf(c) \in Seq(Code) /\ Len(CodeOf(c)) = Width(c)
      /\ Width(c) \in {1, 3}
  BY <1>1, CodeIs DEF UrlType
<1>4. UrlType'
  <2>1. encoded' \in Seq(Code)
    BY <1>1, <1>2, <1>3 DEF UrlType
  <2>. QED  BY <1>1, <1>2, <2>1 DEF UrlType
<1>5. Encodes'
  <2>. PICK k : k = urlPos - 1
    OBVIOUS
  <2>1. k \in 0 .. Len(src) - 1 /\ k + 1 = urlPos
    BY <1>1 DEF UrlType
  <2>2. PICK o : LaidOut(encoded, o, k)
    BY <1>1 DEF UrlInv, Encodes
  <2>3. encoded' = encoded \o CodeOf(src[k + 1])
    BY <1>2, <2>1
  <2>4. \E q : LaidOut(encoded', q, k + 1)
    BY <1>1, <2>1, <2>2, <2>3, PutLaidOut
  <2>5. urlPos' - 1 = k + 1 /\ urlPos' <= Len(src) + 1 /\ decoded' = <<>>
    BY <1>1, <1>2, <2>1 DEF UrlInv, Encodes
  <2>6. \E q : LaidOut(encoded, q, urlPos - 1)'
    BY <1>2, <2>4, <2>5, SameCoding
  <2>. QED  BY <1>2, <2>5, <2>6 DEF Encodes
<1>6. Decodes'
  BY <1>1, <1>2 DEF Decodes
<1>7. Url!FitsBuffer'
  <2>1. Len(encoded') = Len(encoded) + Width(c) /\ Len(encoded) \in Nat
    BY <1>1, <1>2, <1>3 DEF UrlType
  <2>2. bufferSize # Url!Grows => Len(encoded) + Width(c) <= bufferSize - 1
    BY DEF Url!Room
  <2>3. bufferSize \in Nat /\ bufferSize' = bufferSize
    BY <1>1, <1>2 DEF UrlType
  <2>. QED  BY <1>3, <2>1, <2>2, <2>3 DEF Url!FitsBuffer, Url!Grows
<1>. QED  BY <1>4, <1>5, <1>6, <1>7 DEF UrlInv

LEMMA EncodeStep ==
  ASSUME UrlInv, Url!Keep \/ Url!EncodeSpace \/ Url!Escape
  PROVE  UrlInv'
<1>. PICK c : c = src[urlPos]
  OBVIOUS
<1>1. UrlType /\ Url!Encoding /\ urlPos \in 1 .. Len(src) /\ Url!Room(1)
  BY DEF UrlInv, UrlType, Url!Encoding, Url!Keep, Url!EncodeSpace, Url!Escape
<1>2. c \in Codes
  BY <1>1 DEF UrlType
<1>3. Url!SpaceCode \notin Url!Kept
  BY DEF Url!SpaceCode, Url!Kept, Url!Digit, Url!Upper, Url!Lower
<1>4. CASE Url!Keep
  BY <1>1, <1>2, <1>4, CodeIs, PutStep DEF Url!Keep, Url!Here
<1>5. CASE Url!EncodeSpace
  BY <1>1, <1>2, <1>3, <1>5, CodeIs, PutStep DEF Url!EncodeSpace, Url!Here
<1>6. CASE Url!Escape
  BY <1>1, <1>2, <1>6, CodeIs, PutStep DEF Url!Escape, Url!Here
<1>. QED  BY <1>4, <1>5, <1>6

LEMMA EncodeEndsStep ==
  ASSUME UrlInv, Url!EncodeEnds
  PROVE  UrlInv'
<1>1. /\ UrlType /\ urlMode = "encode" /\ urlPos <= Len(src) + 1 /\ decoded = <<>>
      /\ Len(src) \in Nat /\ urlPos \in Nat \ {0}
  BY DEF UrlInv, Encodes, Url!EncodeEnds, UrlType
<1>2. /\ urlMode' = "decode" /\ urlPos' = 1
      /\ UNCHANGED <<src, bufferSize, base, encoded, decoded>>
  BY DEF Url!EncodeEnds, Url!input
<1>. PICK k : k = urlPos - 1
  OBVIOUS
<1>3. k \in 0 .. Len(src) /\ k + 1 = urlPos
  BY <1>1
<1>4. PICK o : LaidOut(encoded, o, k)
  BY <1>1 DEF UrlInv, Encodes
<1>5. NoMore(k)
  <2>. SUFFICES ASSUME k # Len(src) PROVE ~ Url!Room(Width(src[urlPos]))
    BY <1>3 DEF NoMore
  <2>1. urlPos \in 1 .. Len(src) /\ src[urlPos] \in Codes
    BY <1>1, <1>3 DEF UrlType
  <2>2. ~ Url!Room(1) \/ (~ Url!Room(3) /\ Width(src[urlPos]) = 3)
    BY <1>1, <2>1 DEF Url!EncodeEnds, Url!Here, Width
  <2>3. Url!Room(3) => Url!Room(1)
    BY <1>1 DEF Url!Room, UrlType
  <2>. QED  BY <1>1, <2>1, <2>2, <2>3, CodeIs
<1>6. NoMore(k)'
  BY <1>2, <1>5
     DEF NoMore, Url!Room, Width, Url!Kept
<1>7. LaidOut(encoded, o, k)'
  BY <1>2, <1>4, SameCoding
<1>8. UrlType' /\ Url!FitsBuffer' /\ Encodes'
  BY <1>1, <1>2 DEF UrlType, UrlInv, Url!FitsBuffer, Encodes
<1>9. Decodes'
  <2>1. Len(decoded') = 0 /\ urlPos' = o[Len(decoded') + 1]
    BY <1>1, <1>2, <1>4 DEF LaidOut
  <2>. QED  BY <1>2, <1>3, <1>6, <1>7, <2>1 DEF Decodes
<1>. QED  BY <1>8, <1>9 DEF UrlInv

(* A character is decoded.                                                 *)
LEMMA DecodeStep ==
  ASSUME UrlInv, Url!DecodePlus \/ Url!DecodeEscape \/ Url!DecodePlain
  PROVE  UrlInv'
<1>1. /\ UrlType /\ urlMode = "decode" /\ urlPos <= Len(encoded)
      /\ UNCHANGED <<src, bufferSize, base, encoded, urlMode>>
      /\ Len(encoded) \in Nat /\ Len(src) \in Nat /\ Len(decoded) \in Nat
  BY DEF UrlInv, UrlType, Url!Decoding, Url!DecodePlus, Url!DecodeEscape,
         Url!DecodePlain, Url!Yield, Url!input
<1>2. PICK k, o :
        /\ k \in 0 .. Len(src) /\ LaidOut(encoded, o, k) /\ NoMore(k)
        /\ Len(decoded) <= k /\ urlPos = o[Len(decoded) + 1]
        /\ \A j \in 1 .. Len(decoded) : decoded[j] = src[j]
  BY <1>1 DEF UrlInv, Decodes
<1>. PICK d, c : d = Len(decoded) + 1 /\ c = src[d]
  OBVIOUS
<1>3. d \in 1 .. k
  <2>1. o[k + 1] = Len(encoded) + 1
    BY <1>2 DEF LaidOut
  <2>. QED  BY <1>1, <1>2, <2>1
<1>4. c \in Codes /\ o[d + 1] = o[d] + Width(c) /\ StandsIn(encoded, c, o[d])
      /\ o[d] = urlPos
  <2>1. d \in 1 .. Len(src)
    BY <1>1, <1>2, <1>3
  <2>2. c \in Codes /\ o[d] = urlPos
    BY <1>1, <1>2, <2>1 DEF UrlType
  <2>3. \A j \in 1 .. k :
          o[j + 1] = o[j] + Width(src[j]) /\ StandsIn(encoded, src[j], o[j])
    BY <1>2 DEF LaidOut
  <2>. QED  BY <1>3, <2>2, <2>3
<1>5. decoded' = Append(decoded, c) /\ urlPos' = urlPos + Width(c)
  <2>1. urlPos \in Nat
    BY <1>1 DEF UrlType
  <2>. QED
    BY <1>1, <1>4, <2>1, CharacterBack
       DEF Url!DecodePlus, Url!DecodeEscape, Url!DecodePlain, Url!Yield
<1>6. c \in Code /\ Width(c) \in {1, 3}
  BY <1>1, <1>4, CodeIs
<1>7. /\ Len(decoded') = d
      /\ \A j \in 1 .. d : decoded'[j] = src[j]
  <2>1. decoded \in Seq(Code)
    BY <1>1 DEF UrlType
  <2>. QED  BY <1>2, <1>5, <1>6, <2>1
<1>8. UrlType'
  BY <1>1, <1>5, <1>6 DEF UrlType
<1>9. Decodes'
  <2>1. LaidOut(encoded, o, k)'
    BY <1>1, <1>2, SameCoding
  <2>2. NoMore(k)'
    BY <1>1, <1>2 DEF NoMore, Url!Room, Width, Url!Kept
  <2>3. urlPos' = o[Len(decoded') + 1]
    BY <1>4, <1>5, <1>7
  <2>. QED  BY <1>1, <1>2, <1>3, <1>7, <2>1, <2>2, <2>3 DEF Decodes
<1>10. Encodes' /\ Url!FitsBuffer'
  BY <1>1 DEF Encodes, UrlInv, Url!FitsBuffer
<1>. QED  BY <1>8, <1>9, <1>10 DEF UrlInv

LEMMA DecodeEndsStep ==
  ASSUME UrlInv, Url!DecodeEnds
  PROVE  UrlInv'
<1>1. /\ UrlType /\ urlMode = "decode" /\ urlPos > Len(encoded)
      /\ urlMode' = "done"
      /\ UNCHANGED <<src, bufferSize, base, encoded, decoded, urlPos>>
      /\ Len(encoded) \in Nat /\ Len(src) \in Nat /\ Len(decoded) \in Nat
  BY DEF UrlInv, UrlType, Url!DecodeEnds, Url!input
<1>2. PICK k, o :
        /\ k \in 0 .. Len(src) /\ LaidOut(encoded, o, k) /\ NoMore(k)
        /\ Len(decoded) <= k /\ urlPos = o[Len(decoded) + 1]
        /\ \A j \in 1 .. Len(decoded) : decoded[j] = src[j]
  BY <1>1 DEF UrlInv, Decodes
<1>3. Len(decoded) = k
  <2>. SUFFICES ASSUME Len(decoded) # k PROVE FALSE
    OBVIOUS
  <2>. PICK d : d = Len(decoded) + 1
    OBVIOUS
  <2>1. d \in 1 .. k /\ d \in 1 .. Len(src)
    BY <1>1, <1>2
  <2>2. src[d] \in Codes /\ StandsIn(encoded, src[d], urlPos) /\ urlPos \in Nat
    BY <1>1, <1>2, <2>1 DEF UrlType, LaidOut
  <2>. QED  BY <1>1, <2>2, CharacterBack
<1>4. LaidOut(encoded, o, k)' /\ NoMore(k)'
  BY <1>1, <1>2, SameCoding DEF NoMore, Url!Room, Width, Url!Kept
<1>5. Decodes'
  BY <1>1, <1>2, <1>3, <1>4 DEF Decodes
<1>6. UrlType' /\ Encodes' /\ Url!FitsBuffer'
  BY <1>1 DEF UrlType, Encodes, UrlInv, Url!FitsBuffer
<1>. QED  BY <1>5, <1>6 DEF UrlInv

LEMMA UrlRight == UrlInv => EncodingRight
<1>. SUFFICES ASSUME UrlInv PROVE Url!ComesBack /\ Url!CutOnlyWhenFull
  BY DEF UrlInv, EncodingRight, Url!EncodingRight
<1>. SUFFICES ASSUME urlMode = "done"
              PROVE  Url!ComesBack /\ Url!CutOnlyWhenFull
  BY DEF Url!ComesBack, Url!CutOnlyWhenFull
<1>1. PICK k \in 0 .. Len(src) :
        /\ NoMore(k) /\ Len(decoded) = k
        /\ \A j \in 1 .. k : decoded[j] = src[j]
  BY DEF UrlInv, Decodes
<1>2. /\ src \in Seq(Codes) /\ decoded \in Seq(Code)
      /\ Len(src) \in Nat /\ k \in Nat /\ k <= Len(src)
  BY DEF UrlInv, UrlType
<1>3. k = Len(src) => decoded = src
  BY <1>1, <1>2, SeqEqual
<1>4. Url!IsPrefix(decoded, src)
  <2>1. SubSeq(decoded, 1, k) = SubSeq(src, 1, k)
    BY <1>1, <1>2
  <2>. QED  BY <1>1, <1>2, <2>1 DEF Url!IsPrefix
<1>5. bufferSize = Url!Grows => k = Len(src)
  BY <1>1 DEF NoMore, Url!Room
<1>6. Url!ComesBack
  BY <1>3, <1>4, <1>5 DEF Url!ComesBack
<1>7. Url!CutOnlyWhenFull
  BY <1>1, <1>3 DEF Url!CutOnlyWhenFull, NoMore, Width
<1>. QED  BY <1>6, <1>7

(* A text that is encoded and decoded again comes back, and of one that    *)
(* did not fit into the buffer its beginning: the buffer holds what is     *)
(* written to it and its 0, no escape is cut in two, and a text is cut     *)
(* only where its next character would not fit, for texts and buffers of   *)
(* any length (IString.cpp:500-617).                                       *)
THEOREM UrlsComeBack == Url!Spec => []EncodingRight
<1>1. UrlInv /\ [Url!Next]_Url!vars => UrlInv'
  <2>1. ASSUME UrlInv, UNCHANGED Url!vars PROVE UrlInv'
    <3>1. UNCHANGED <<src, bufferSize, base, encoded, decoded, urlPos, urlMode>>
      BY <2>1 DEF Url!vars, Url!input
    <3>2. UrlType' /\ Url!FitsBuffer'
      BY <2>1, <3>1 DEF UrlInv, UrlType, Url!FitsBuffer
    <3>3. \A o, k : (LaidOut(encoded, o, k)' <=> LaidOut(encoded, o, k))
                    /\ (NoMore(k)' <=> NoMore(k))
      BY <3>1, SameCoding DEF NoMore, Url!Room, Width, Url!Kept
    <3>4. Encodes' /\ Decodes'
      BY <2>1, <3>1, <3>3 DEF UrlInv, Encodes, Decodes
    <3>. QED  BY <3>2, <3>4 DEF UrlInv
  <2>. QED
    BY <2>1, EncodeStep, EncodeEndsStep, DecodeStep, DecodeEndsStep DEF Url!Next
<1>. QED  BY <1>1, InitUrl, UrlRight, PTL DEF Url!Spec

----------------------------------------------------------------------------
(* The two checksums.                                                      *)

LEMMA Division ==
  ASSUME NEW x \in Nat, NEW m \in Nat \ {0}
  PROVE  x = m * (x \div m) + (x % m) /\ x % m \in 0 .. m - 1 /\ x \div m \in Nat
<1>1. x = m * (x \div m) + (x % m)
  BY ONLY x \in Nat, m \in Nat \ {0}
<1>2. x % m \in 0 .. m - 1
  OBVIOUS
<1>3. x \div m \in Int
  OBVIOUS
<1>. PICK q : q = x \div m
  OBVIOUS
<1>4. q >= 0
  <2>. SUFFICES ASSUME ~ (q >= 0) PROVE FALSE
    OBVIOUS
  <2>1. q \in Int /\ q + 1 <= 0 /\ x % m < m /\ x % m \in Int
    BY <1>2, <1>3
  <2>2. m * (q + 1) <= 0
    BY ONLY <2>1, m \in Nat \ {0}
  <2>3. m * (q + 1) = m * q + m
    BY ONLY <2>1, m \in Nat \ {0}
  <2>. QED  BY <1>1, <2>1, <2>2, <2>3
<1>. QED  BY <1>1, <1>2, <1>3, <1>4

LEMMA Quotient ==
  ASSUME NEW m \in Nat \ {0}, NEW q \in Nat, NEW r \in 0 .. m - 1
  PROVE  (m * q + r) % m = r /\ (m * q + r) \div m = q
<1>1. (m * q + r) % m = r
  OBVIOUS
<1>2. (m * q + r) \div m = q
  OBVIOUS
<1>. QED  BY <1>1, <1>2

(* A remainder may be taken at once or at the end.                         *)
LEMMA Remainders ==
  ASSUME NEW x \in Nat, NEW y \in Nat, NEW m \in Nat \ {0}
  PROVE  ((x % m) + y) % m = (x + y) % m
<1>1. PICK q \in Nat, r \in 0 .. m - 1 : x = m * q + r /\ x % m = r
  BY Division
<1>2. r + y \in Nat
  OBVIOUS
<1>3. PICK p \in Nat, s \in 0 .. m - 1 : r + y = m * p + s /\ (r + y) % m = s
  BY <1>2, Division
<1>4. x + y = m * q + (m * p + s)
  BY ONLY <1>1, <1>3, x \in Nat, y \in Nat, m \in Nat \ {0}, q \in Nat,
          p \in Nat, r \in 0 .. m - 1, s \in 0 .. m - 1
<1>5. m * q + (m * p + s) = m * (q + p) + s
  BY ONLY m \in Nat \ {0}, q \in Nat, p \in Nat, s \in 0 .. m - 1
<1>6. (m * (q + p) + s) % m = s
  <2>1. q + p \in Nat
    OBVIOUS
  <2>. QED  BY ONLY <2>1, s \in 0 .. m - 1, Quotient, m \in Nat \ {0}
<1>. QED  BY ONLY <1>1, <1>3, <1>4, <1>5, <1>6, Zenon

(* t[k] is the sum of the first k of a row.                                *)
Adds(t, row, n) ==
  /\ t[0] = 0
  /\ \A k \in 1 .. n : t[k] = t[k - 1] + row[k]

LEMMA AddsExist ==
  ASSUME NEW row, NEW n \in Nat
  PROVE  \E t : t = [k \in 0 .. n |-> IF k = 0 THEN 0 ELSE t[k - 1] + row[k]]
<1>. DEFINE Added(t, m) ==
              t = [k \in 0 .. m |-> IF k = 0 THEN 0 ELSE t[k - 1] + row[k]]
            S == {m \in Nat : ~ \E t : Added(t, m)}
<1>. SUFFICES ASSUME S # {} PROVE FALSE
  OBVIOUS
<1>1. PICK k \in S : \A j \in S : k <= j
  <2>1. S \subseteq Nat
    OBVIOUS
  <2>. QED  BY <2>1, Smallest
<1>2. k # 0
  <2>. SUFFICES ASSUME k = 0 PROVE FALSE
    OBVIOUS
  <2>1. Added([i \in 0 .. 0 |-> 0], 0)
    OBVIOUS
  <2>. QED  BY <2>1
<1>3. k \in Nat /\ k - 1 \in Nat
  BY <1>2
<1>4. k - 1 \notin S
  <2>. SUFFICES ASSUME k - 1 \in S PROVE FALSE
    OBVIOUS
  <2>. HIDE DEF S
  <2>1. k <= k - 1
    BY <1>1
  <2>. QED  BY <1>3, <2>1
<1>5. PICK t : Added(t, k - 1)
  BY <1>3, <1>4
<1>. DEFINE h == [i \in 0 .. k |-> IF i # k THEN t[i] ELSE t[k - 1] + row[k]]
<1>6. ASSUME NEW i \in 0 .. k
      PROVE  h[i] = IF i = 0 THEN 0 ELSE h[i - 1] + row[i]
  <2>1. CASE i = k
    BY <1>2, <1>3, <2>1
  <2>2. CASE i # k
    <3>1. i \in 0 .. k - 1 /\ h[i] = t[i] /\ (i # 0 => h[i - 1] = t[i - 1])
      BY <1>3, <2>2
    <3>2. t[i] = IF i = 0 THEN 0 ELSE t[i - 1] + row[i]
      BY <1>5, <3>1
    <3>. QED  BY <3>1, <3>2
  <2>. QED  BY <2>1, <2>2
<1>7. h = [i \in 0 .. k |-> h[i]]
  OBVIOUS
<1>. HIDE DEF h
<1>8. Added(h, k)
  BY <1>6, <1>7
<1>. QED  BY <1>1, <1>8

LEMMA TotalAdds ==
  ASSUME NEW row, NEW n \in Nat
  PROVE  \E t : Adds(t, row, n) /\ Sums!Total(row, n) = t[n]
<1>. DEFINE F == CHOOSE t : t = [k \in 0 .. n |->
                                  IF k = 0 THEN 0 ELSE t[k - 1] + row[k]]
<1>1. \E t : t = [k \in 0 .. n |-> IF k = 0 THEN 0 ELSE t[k - 1] + row[k]]
  BY AddsExist
<1>2. F = [k \in 0 .. n |-> IF k = 0 THEN 0 ELSE F[k - 1] + row[k]]
  BY <1>1, Zenon
<1>3. Sums!Total(row, n) = F[n]
  BY DEF Sums!Total
<1>. HIDE DEF F
<1>. QED  BY <1>2, <1>3 DEF Adds

(* The sums of two rows make that of the row of their sums.                *)
LEMMA AddsBoth ==
  ASSUME NEW n \in Nat, NEW r, NEW s, NEW t, NEW f, NEW g, NEW h,
         Adds(f, r, n), Adds(g, s, n), Adds(h, t, n),
         \A k \in 1 .. n : r[k] \in Nat /\ s[k] \in Nat /\ t[k] = r[k] + s[k]
  PROVE  f[n] \in Nat /\ g[n] \in Nat /\ h[n] = f[n] + g[n]
<1>. DEFINE S == {k \in 0 .. n :
                    ~ (f[k] \in Nat /\ g[k] \in Nat /\ h[k] = f[k] + g[k])}
<1>. SUFFICES ASSUME S # {} PROVE FALSE
  OBVIOUS
<1>1. PICK k \in S : \A j \in S : k <= j
  <2>1. S \subseteq Nat
    OBVIOUS
  <2>. QED  BY <2>1, Smallest
<1>2. k # 0
  BY <1>1 DEF Adds
<1>3. k \in 1 .. n /\ k - 1 \in 0 .. n /\ ~ (k <= k - 1)
  BY <1>2
<1>4. f[k - 1] \in Nat /\ g[k - 1] \in Nat /\ h[k - 1] = f[k - 1] + g[k - 1]
  BY <1>1, <1>3
<1>5. /\ f[k] = f[k - 1] + r[k] /\ g[k] = g[k - 1] + s[k]
      /\ h[k] = h[k - 1] + t[k]
  BY <1>3 DEF Adds
<1>6. r[k] \in Nat /\ s[k] \in Nat /\ t[k] = r[k] + s[k]
  BY <1>3
<1>. QED  BY <1>4, <1>5, <1>6

LEMMA TotalBoth ==
  ASSUME NEW n \in Nat, NEW r, NEW s, NEW t,
         \A k \in 1 .. n : r[k] \in Nat /\ s[k] \in Nat /\ t[k] = r[k] + s[k]
  PROVE  /\ Sums!Total(r, n) \in Nat
         /\ Sums!Total(t, n) = Sums!Total(r, n) + Sums!Total(s, n)
<1>1. PICK f : Adds(f, r, n) /\ Sums!Total(r, n) = f[n]
  BY TotalAdds
<1>2. PICK g : Adds(g, s, n) /\ Sums!Total(s, n) = g[n]
  BY TotalAdds
<1>3. PICK h : Adds(h, t, n) /\ Sums!Total(t, n) = h[n]
  BY TotalAdds
<1>. QED  BY <1>1, <1>2, <1>3, AddsBoth

(* One more of a row of numbers.                                           *)
LEMMA TotalStep ==
  ASSUME NEW n \in Nat, NEW row, \A k \in 1 .. n + 1 : row[k] \in Nat
  PROVE  /\ Sums!Total(row, n) \in Nat
         /\ Sums!Total(row, n + 1) = Sums!Total(row, n) + row[n + 1]
<1>. PICK zero : zero = [k \in 0 .. n |-> 0]
  OBVIOUS
<1>1. Adds(zero, zero, n) /\ zero[n] = 0 /\ \A k \in 1 .. n : zero[k] = 0
  BY DEF Adds
<1>2. PICK f : Adds(f, row, n) /\ Sums!Total(row, n) = f[n]
  BY TotalAdds
<1>3. PICK g : Adds(g, row, n + 1) /\ Sums!Total(row, n + 1) = g[n + 1]
  BY TotalAdds
<1>4. Adds(g, row, n) /\ g[n + 1] = g[n] + row[n + 1]
  BY <1>3 DEF Adds
<1>5. \A k \in 1 .. n : row[k] \in Nat /\ zero[k] \in Nat /\ row[k] = row[k] + zero[k]
  BY <1>1
<1>6. f[n] \in Nat /\ g[n] = f[n] + zero[n]
  BY <1>1, <1>2, <1>4, <1>5, AddsBoth
<1>. QED  BY <1>1, <1>2, <1>3, <1>4, <1>6

LEMMA TotalNothing ==
  ASSUME NEW row
  PROVE  Sums!Total(row, 0) = 0
<1>1. PICK h : Adds(h, row, 0) /\ Sums!Total(row, 0) = h[0]
  BY TotalAdds
<1>. QED  BY <1>1 DEF Adds

(* Every byte counts once more with each byte behind it.                   *)
Weighted(d, m) == [k \in 1 .. m |-> (m + 1 - k) * d[k]]

LEMMA TotalWeighted ==
  ASSUME NEW m \in Nat, NEW d, \A k \in 1 .. m + 1 : d[k] \in Nat
  PROVE  /\ Sums!Total(Weighted(d, m), m) \in Nat
         /\ Sums!Total(Weighted(d, m + 1), m + 1)
              = Sums!Total(Weighted(d, m), m) + Sums!Total(d, m + 1)
<1>. PICK r : r = Weighted(d, m)
  OBVIOUS
<1>. PICK t : t = Weighted(d, m + 1)
  OBVIOUS
<1>1. ASSUME NEW k \in 1 .. m
      PROVE  r[k] \in Nat /\ d[k] \in Nat /\ t[k] = r[k] + d[k]
  <2>. PICK x : x = d[k]
    OBVIOUS
  <2>1. x \in Nat /\ r[k] = (m + 1 - k) * x /\ t[k] = (m + 1 + 1 - k) * x
    BY DEF Weighted
  <2>2. m + 1 - k \in Nat /\ m + 1 + 1 - k = (m + 1 - k) + 1
    OBVIOUS
  <2>. PICK w \in Nat : w = m + 1 - k
    BY <2>2
  <2>3. r[k] = w * x /\ t[k] = (w + 1) * x
    BY <2>1, <2>2
  <2>4. w * x \in Nat /\ (w + 1) * x = w * x + x
    BY <2>1
  <2>. QED  BY <2>1, <2>3, <2>4
<1>2. t[m + 1] = d[m + 1]
  <2>. PICK x : x = d[m + 1]
    OBVIOUS
  <2>1. x \in Nat /\ t[m + 1] = (m + 1 + 1 - (m + 1)) * x
    BY DEF Weighted
  <2>2. m + 1 + 1 - (m + 1) = 1
    OBVIOUS
  <2>. QED  BY <2>1, <2>2
<1>3. \A k \in 1 .. m + 1 : t[k] \in Nat
  <2>. SUFFICES ASSUME NEW k \in 1 .. m + 1 PROVE t[k] \in Nat
    OBVIOUS
  <2>1. CASE k = m + 1
    BY <1>2, <2>1
  <2>2. CASE k # m + 1
    <3>1. k \in 1 .. m
      BY <2>2
    <3>. QED  BY <1>1, <3>1
  <2>. QED  BY <2>1, <2>2
<1>4. /\ Sums!Total(r, m) \in Nat
      /\ Sums!Total(t, m) = Sums!Total(r, m) + Sums!Total(d, m)
  BY ONLY <1>1, TotalBoth, m \in Nat
<1>5. Sums!Total(t, m + 1) = Sums!Total(t, m) + t[m + 1]
  BY ONLY <1>3, TotalStep, m \in Nat
<1>6. /\ Sums!Total(d, m + 1) = Sums!Total(d, m) + d[m + 1]
      /\ Sums!Total(d, m) \in Nat
  BY TotalStep
<1>7. d[m + 1] \in Nat
  OBVIOUS
<1>8. Sums!Total(t, m + 1) = Sums!Total(r, m) + Sums!Total(d, m + 1)
  BY ONLY <1>2, <1>4, <1>5, <1>6, <1>7
<1>. QED  BY <1>4, <1>8

SumsType ==
  /\ DOMAIN buffer = 1 .. Len(buffer) /\ Len(buffer) \in Nat
  /\ \A k \in 1 .. Len(buffer) : buffer[k] \in 0 .. Byte - 1
  /\ summed \in 0 .. Len(buffer)

(* Adler32Menu: a and b of the bytes behind us.                            *)
Adlered ==
  /\ adlerA = (1 + Sums!Total(buffer, summed)) % Base
  /\ adlerB = (summed + Sums!Total(Weighted(buffer, summed), summed)) % Base

(* CalCheckSum: no more than a word for every two bytes behind us.         *)
Summed ==
  /\ Len(buffer) <= MaxPacket /\ ulCheckSum \in Nat
  /\ \E c \in Nat : /\ ulCheckSum <= (Sums!Word - 1) * c
                    /\ 2 * c <= summed + 1
                    /\ summed < Len(buffer) => 2 * c <= summed

SumsInv ==
  /\ loop \in {"adler", "adler done", "sum", "sum done"}
  /\ loop = "adler" => SumsType /\ Adlered
  /\ loop = "sum" => SumsType /\ Summed
  /\ SumsRight

LEMMA Widths ==
  /\ Byte \in Nat \ {0, 1} /\ Base \in Nat \ {0, 1} /\ Base <= Sums!Word
  /\ Sums!Word \in Nat /\ Sums!Word >= 4 /\ Sums!Word = Byte * Byte
  /\ MaxPacket \in Nat /\ MaxPacket <= 2 * Sums!Word - 1
<1>1. /\ Byte \in Nat \ {0, 1} /\ Base \in 2 .. Byte * Byte
      /\ MaxPacket \in 0 .. 2 * Byte * Byte - 1
  BY SumsConstants DEF Sums!ChecksumsConstants
<1>2. Byte * Byte \in Nat /\ Byte * Byte >= 4
  <2>1. Byte >= 2 /\ Byte \in Nat
    BY ONLY <1>1
  <2>. QED  BY ONLY <2>1
<1>3. 2 * Byte * Byte = 2 * (Byte * Byte)
  BY ONLY <1>1
<1>. PICK w : w = Byte * Byte
  OBVIOUS
<1>4. Sums!Word = w
  BY DEF Sums!Word
<1>. QED  BY ONLY <1>1, <1>2, <1>3, <1>4, w = Byte * Byte

(* One more byte.                                                          *)
LEMMA AdlerStepRight ==
  ASSUME SumsInv, Sums!AdlerStep
  PROVE  SumsInv'
<1>. PICK k : k = summed
  OBVIOUS
<1>1. /\ SumsType /\ Adlered /\ loop = "adler" /\ k < Len(buffer)
      /\ adlerA' = (adlerA + buffer[k + 1]) % Base
      /\ adlerB' = (adlerB + adlerA') % Base
      /\ summed' = k + 1 /\ UNCHANGED <<loop, buffer>>
  BY DEF SumsInv, Sums!AdlerStep
<1>2. /\ k \in Nat /\ k + 1 \in 1 .. Len(buffer)
      /\ \A i \in 1 .. k + 1 : buffer[i] \in Nat
  <2>1. Len(buffer) \in Nat /\ k \in 0 .. Len(buffer)
    BY <1>1 DEF SumsType
  <2>2. k \in Nat /\ k + 1 \in 1 .. Len(buffer)
    BY ONLY <1>1, <2>1
  <2>3. ASSUME NEW i \in 1 .. k + 1 PROVE buffer[i] \in Nat
    <3>1. i \in 1 .. Len(buffer)
      BY <2>1, <2>2
    <3>2. buffer[i] \in 0 .. Byte - 1
      BY <1>1, <3>1 DEF SumsType
    <3>. QED  BY <3>2, Widths
  <2>. QED  BY <2>2, <2>3
<1>. PICK t, u, v, w, x :
       /\ t = Sums!Total(buffer, k) /\ u = Sums!Total(buffer, k + 1)
       /\ v = Sums!Total(Weighted(buffer, k), k)
       /\ w = Sums!Total(Weighted(buffer, k + 1), k + 1)
       /\ x = buffer[k + 1]
  OBVIOUS
<1>3. t \in Nat /\ u = t + x /\ v \in Nat /\ w = v + u /\ x \in Nat /\ u \in Nat
  <2>1. t \in Nat /\ u = t + x
    BY <1>2, TotalStep
  <2>2. v \in Nat /\ w = v + u
    BY <1>2, TotalWeighted
  <2>3. x \in Nat
    BY <1>2
  <2>. QED  BY ONLY <2>1, <2>2, <2>3
<1>4. adlerA = (1 + t) % Base /\ adlerB = (k + v) % Base
  BY <1>1 DEF Adlered
<1>. PICK m \in Nat \ {0} : m = Base
  BY Widths
<1>5. adlerA' = (1 + u) % m
  <2>1. adlerA' = (((1 + t) % m) + x) % m
    BY ONLY <1>1, <1>4, m = Base, x = buffer[k + 1], Zenon
  <2>2. 1 + t \in Nat /\ (1 + t) + x = 1 + u
    BY <1>3
  <2>3. (((1 + t) % m) + x) % m = ((1 + t) + x) % m
    BY ONLY <1>3, <2>2, m \in Nat \ {0}, Remainders
  <2>. QED  BY ONLY <2>1, <2>2, <2>3, Zenon
<1>6. adlerB' = (k + 1 + w) % m
  <2>. PICK p, q : p = (k + v) % m /\ q = (1 + u) % m
    OBVIOUS
  <2>1. adlerB' = (p + q) % m
    BY ONLY <1>1, <1>4, <1>5, m = Base, p = (k + v) % m, q = (1 + u) % m, Zenon
  <2>0. k + v \in Nat /\ 1 + u \in Nat
    BY ONLY <1>2, <1>3
  <2>. PICK y \in Nat : y = k + v
    BY ONLY <2>0
  <2>. PICK z \in Nat : z = 1 + u
    BY ONLY <2>0
  <2>2. q \in Nat
    <3>1. z % m \in 0 .. m - 1
      BY ONLY z \in Nat, m \in Nat \ {0}, Division
    <3>. QED  BY <3>1
  <2>3. (p + q) % m = ((k + v) + q) % m
    <3>1. ((y % m) + q) % m = (y + q) % m
      BY ONLY <2>2, y \in Nat, m \in Nat \ {0}, Remainders
    <3>. QED  BY ONLY <3>1, y = k + v, p = (k + v) % m, Zenon
  <2>4. (q + (k + v)) % m = ((1 + u) + (k + v)) % m
    <3>1. ((z % m) + y) % m = (z + y) % m
      BY ONLY z \in Nat, y \in Nat, m \in Nat \ {0}, Remainders
    <3>. QED  BY ONLY <3>1, y = k + v, z = 1 + u, q = (1 + u) % m, Zenon
  <2>5. (k + v) + q = q + (k + v)
    BY ONLY <2>2, y \in Nat, y = k + v
  <2>6. (1 + u) + (k + v) = k + 1 + w
    BY <1>2, <1>3
  <2>. QED  BY ONLY <2>1, <2>3, <2>4, <2>5, <2>6, Zenon
<1>7. Adlered'
  <2>1. Adlered' <=>
          /\ adlerA' = (1 + Sums!Total(buffer, k + 1)) % Base
          /\ adlerB' = (k + 1 + Sums!Total(Weighted(buffer, k + 1), k + 1)) % Base
    BY <1>1 DEF Adlered, Weighted
  <2>. QED  BY ONLY <1>5, <1>6, <2>1, m = Base, u = Sums!Total(buffer, k + 1),
               w = Sums!Total(Weighted(buffer, k + 1), k + 1), Zenon
<1>8. SumsType'
  BY <1>1, <1>2 DEF SumsType
<1>. QED
  BY <1>1, <1>7, <1>8
  DEF SumsInv, SumsRight, Sums!SumsRight, Sums!AdlerByDefinition,
      Sums!ReceiverAccepts

LEMMA AdlerDoneRight ==
  ASSUME SumsInv, Sums!AdlerDone
  PROVE  SumsInv'
<1>. PICK n : n = Len(buffer)
  OBVIOUS
<1>1. /\ SumsType /\ Adlered /\ summed = n
      /\ checksum' = adlerB * Sums!Word + adlerA
      /\ loop' = "adler done" /\ UNCHANGED buffer
  BY DEF SumsInv, Sums!AdlerDone
<1>. PICK a, b, t, w :
       /\ t = Sums!Total(buffer, n) /\ w = Sums!Total(Weighted(buffer, n), n)
       /\ a = (1 + t) % Base /\ b = (n + w) % Base
  OBVIOUS
<1>2. adlerA = a /\ adlerB = b
  BY <1>1 DEF Adlered
<1>3. a \in 0 .. Base - 1 /\ b \in 0 .. Base - 1
  <2>1. n \in Nat /\ \A k \in 1 .. n : buffer[k] \in Nat
    <3>1. Len(buffer) \in Nat
      BY <1>1 DEF SumsType
    <3>2. \A k \in 1 .. Len(buffer) : buffer[k] \in 0 .. Byte - 1
      BY <1>1 DEF SumsType
    <3>. QED  BY ONLY <3>1, <3>2, n = Len(buffer), Widths
  <2>2. t \in Nat /\ w \in Nat
    <3>1. CASE n = 0
      <4>1. t = 0 /\ w = 0
        BY <3>1, TotalNothing
      <4>. QED  BY <4>1
    <3>2. CASE n # 0
      <4>. PICK m \in Nat : n = m + 1
        BY <2>1, <3>2
      <4>1. \A k \in 1 .. m + 1 : buffer[k] \in Nat
        BY <2>1
      <4>2. /\ Sums!Total(buffer, m) \in Nat /\ buffer[m + 1] \in Nat
            /\ t = Sums!Total(buffer, m) + buffer[m + 1]
        BY <4>1, TotalStep
      <4>3. /\ Sums!Total(Weighted(buffer, m), m) \in Nat
            /\ w = Sums!Total(Weighted(buffer, m), m) + t
        BY <4>1, TotalWeighted
      <4>. QED  BY ONLY <4>2, <4>3
    <3>. QED  BY <3>1, <3>2
  <2>3. 1 + t \in Nat /\ n + w \in Nat /\ Base \in Nat \ {0}
    BY ONLY <2>1, <2>2, Widths
  <2>4. (1 + t) % Base \in 0 .. Base - 1 /\ (n + w) % Base \in 0 .. Base - 1
    BY ONLY <2>3, Division
  <2>. QED  BY <2>4
<1>4. checksum' = Sums!Word * b + a
  <2>1. checksum' = b * Sums!Word + a
    BY ONLY <1>1, <1>2, Zenon
  <2>. QED  BY <1>3, <2>1, Widths
<1>5. checksum' % Sums!Word = a /\ checksum' \div Sums!Word = b
  <2>. PICK v : v = Sums!Word
    OBVIOUS
  <2>1. v \in Nat \ {0} /\ b \in Nat /\ a \in 0 .. v - 1
    BY <1>3, Widths
  <2>2. (v * b + a) % v = a /\ (v * b + a) \div v = b
    BY ONLY <2>1, Quotient
  <2>. QED  BY ONLY <1>4, <2>2, v = Sums!Word, Zenon
<1>6. Sums!AdlerByDefinition'
  BY <1>1, <1>5 DEF Sums!AdlerByDefinition, Weighted
<1>. QED
  BY <1>1, <1>6 DEF SumsInv, SumsRight, Sums!SumsRight, Sums!ReceiverAccepts

(* CalCheckSum: two bytes are no more than a word.                         *)
LEMMA SumWordRight ==
  ASSUME SumsInv, Sums!SumWord
  PROVE  SumsInv'
<1>. PICK k, n, x, y, w :
       /\ k = summed /\ n = Len(buffer) /\ x = buffer[k + 1] /\ y = buffer[k + 2]
       /\ w = Sums!Word
  OBVIOUS
<1>1. /\ SumsType /\ Summed /\ loop = "sum" /\ n - k > 1
      /\ ulCheckSum' = ulCheckSum + x + Byte * y
      /\ summed' = k + 2 /\ UNCHANGED <<loop, buffer>>
  BY DEF SumsInv, Sums!SumWord
<1>2. /\ n \in Nat /\ k \in Nat /\ k + 2 <= n
      /\ x \in 0 .. Byte - 1 /\ y \in 0 .. Byte - 1
  <2>1. /\ n \in Nat /\ k \in 0 .. n
        /\ \A i \in 1 .. n : buffer[i] \in 0 .. Byte - 1
    BY <1>1 DEF SumsType
  <2>2. k + 2 <= n /\ k + 1 \in 1 .. n /\ k + 2 \in 1 .. n
    BY ONLY <1>1, <2>1
  <2>. QED  BY <2>1, <2>2
<1>3. x + Byte * y <= w - 1 /\ x + Byte * y \in Nat /\ w - 1 \in Nat
  <2>1. Byte \in Nat \ {0, 1} /\ w = Byte * Byte /\ w \in Nat /\ w >= 4
    BY Widths
  <2>2. Byte * y <= Byte * (Byte - 1) /\ Byte * y \in Nat
    BY ONLY <1>2, <2>1
  <2>3. Byte * (Byte - 1) = w - Byte
    BY ONLY <2>1
  <2>. QED  BY ONLY <1>2, <2>1, <2>2, <2>3
<1>4. PICK c \in Nat : /\ ulCheckSum <= (w - 1) * c /\ 2 * c <= k + 1
                       /\ k < n => 2 * c <= k
  BY <1>1 DEF Summed
<1>5. ulCheckSum \in Nat /\ n <= MaxPacket
  BY <1>1 DEF Summed
<1>6. Summed'
  <2>1. ulCheckSum' \in Nat
    BY ONLY <1>1, <1>2, <1>3, <1>5, Widths
  <2>2. (w - 1) * (c + 1) = (w - 1) * c + (w - 1) /\ (w - 1) * c \in Nat
    BY ONLY <1>3, c \in Nat
  <2>3. ulCheckSum' = ulCheckSum + (x + Byte * y)
    BY ONLY <1>1, <1>2, <1>5, Widths
  <2>4. ulCheckSum' <= (w - 1) * (c + 1)
    BY ONLY <1>3, <1>4, <1>5, <2>2, <2>3
  <2>5. c + 1 \in Nat /\ 2 * (c + 1) <= k + 2
    BY ONLY <1>1, <1>2, <1>4, c \in Nat
  <2>6. 2 * (c + 1) <= (k + 2) + 1
    BY ONLY <1>2, <2>5, c \in Nat
  <2>. QED  BY <1>1, <1>5, <2>1, <2>4, <2>5, <2>6 DEF Summed, Sums!Word
<1>7. SumsType'
  BY <1>1, <1>2 DEF SumsType
<1>. QED
  BY <1>1, <1>6, <1>7
  DEF SumsInv, SumsRight, Sums!SumsRight, Sums!AdlerByDefinition,
      Sums!ReceiverAccepts

LEMMA SumLastByteRight ==
  ASSUME SumsInv, Sums!SumLastByte
  PROVE  SumsInv'
<1>. PICK k, n, x, w :
       /\ k = summed /\ n = Len(buffer) /\ x = buffer[k + 1] /\ w = Sums!Word
  OBVIOUS
<1>1. /\ SumsType /\ Summed /\ loop = "sum" /\ n - k = 1
      /\ ulCheckSum' = ulCheckSum + x
      /\ summed' = k + 1 /\ UNCHANGED <<loop, buffer>>
  BY DEF SumsInv, Sums!SumLastByte
<1>2. n \in Nat /\ k \in Nat /\ k + 1 = n /\ x \in 0 .. Byte - 1
  <2>1. /\ n \in Nat /\ k \in 0 .. n
        /\ \A i \in 1 .. n : buffer[i] \in 0 .. Byte - 1
    BY <1>1 DEF SumsType
  <2>2. k + 1 = n /\ k + 1 \in 1 .. n
    BY ONLY <1>1, <2>1
  <2>. QED  BY <2>1, <2>2
<1>3. x <= w - 1 /\ x \in Nat /\ w - 1 \in Nat
  <2>1. Byte \in Nat \ {0, 1} /\ w = Byte * Byte /\ w \in Nat /\ w >= 4
    BY Widths
  <2>2. Byte <= Byte * Byte
    BY ONLY <2>1
  <2>. QED  BY ONLY <1>2, <2>1, <2>2
<1>4. PICK c \in Nat : /\ ulCheckSum <= (w - 1) * c /\ 2 * c <= k + 1
                       /\ k < n => 2 * c <= k
  BY <1>1 DEF Summed
<1>5. ulCheckSum \in Nat /\ n <= MaxPacket
  BY <1>1 DEF Summed
<1>6. Summed'
  <2>1. ulCheckSum' \in Nat
    BY ONLY <1>1, <1>3, <1>5
  <2>2. (w - 1) * (c + 1) = (w - 1) * c + (w - 1) /\ (w - 1) * c \in Nat
    BY ONLY <1>3, c \in Nat
  <2>3. ulCheckSum' <= (w - 1) * (c + 1)
    BY ONLY <1>1, <1>3, <1>4, <1>5, <2>2
  <2>4. c + 1 \in Nat /\ 2 * (c + 1) <= (k + 1) + 1 /\ ~ (k + 1 < n)
    BY ONLY <1>2, <1>4, c \in Nat
  <2>. QED  BY <1>1, <1>5, <2>1, <2>3, <2>4 DEF Summed, Sums!Word
<1>7. SumsType'
  BY <1>1, <1>2 DEF SumsType
<1>. QED
  BY <1>1, <1>6, <1>7
  DEF SumsInv, SumsRight, Sums!SumsRight, Sums!AdlerByDefinition,
      Sums!ReceiverAccepts

(* The sum and its checksum come to a multiple of Word - 1.                *)
LEMMA FoldedRight ==
  ASSUME NEW s \in Nat, s <= (Sums!Word - 1) * Sums!Word
  PROVE  (s + (Sums!Word - 1 - Sums!Folded(s))) % (Sums!Word - 1) = 0
<1>. PICK w : w = Sums!Word
  OBVIOUS
<1>1. w \in Nat /\ w >= 4
  BY Widths
<1>2. PICK q \in Nat, r \in 0 .. w - 1 :
        s = w * q + r /\ s \div w = q /\ s % w = r
  <2>1. w \in Nat \ {0}
    BY <1>1
  <2>2. /\ s = w * (s \div w) + (s % w) /\ s % w \in 0 .. w - 1
        /\ s \div w \in Nat
    BY ONLY <2>1, s \in Nat, Division
  <2>. QED  BY ONLY <2>2
<1>3. q <= w - 1
  <2>. SUFFICES ASSUME q >= w PROVE FALSE
    BY <1>1
  <2>1. w * q >= w * w
    BY ONLY <1>1, q \in Nat, q >= w
  <2>2. (w - 1) * w = w * w - w /\ w * w \in Nat /\ w * q \in Nat
    BY ONLY <1>1, q \in Nat
  <2>3. s <= (w - 1) * w
    OBVIOUS
  <2>. QED  BY ONLY <1>1, <1>2, <2>1, <2>2, <2>3, s \in Nat, r \in 0 .. w - 1
<1>. PICK f : f = Sums!Folded(s)
  OBVIOUS
<1>4. f = ((q + r) + ((q + r) \div w)) % w
  BY <1>2 DEF Sums!Folded, Sums!Carried
<1>5. q + r \in Nat /\ q + r <= 2 * w - 2
  BY ONLY <1>1, <1>3, q \in Nat, r \in 0 .. w - 1
<1>6. PICK p \in Nat : s + (w - 1 - f) = (w - 1) * p
  <2>1. CASE q + r < w
    <3>1. (w * 0 + (q + r)) \div w = 0 /\ (w * 0 + (q + r)) % w = q + r
      <4>1. q + r \in 0 .. w - 1 /\ w \in Nat \ {0}
        BY ONLY <1>1, <1>5, <2>1
      <4>. QED  BY ONLY <4>1, Quotient
    <3>2. w * 0 + (q + r) = q + r /\ (q + r) + 0 = q + r
      BY ONLY <1>1, <1>5
    <3>3. f = q + r
      BY ONLY <1>4, <3>1, <3>2, Zenon
    <3>4. (w - 1) * (q + 1) = w * q - q + w - 1 /\ w * q \in Nat
      BY ONLY <1>1, q \in Nat
    <3>5. s + (w - 1 - f) = (w - 1) * (q + 1)
      BY ONLY <1>1, <1>2, <3>3, <3>4, q \in Nat, r \in 0 .. w - 1
    <3>. QED  BY <3>5
  <2>2. CASE q + r >= w
    <3>. PICK t : t = q + r - w
      OBVIOUS
    <3>1. t \in 0 .. w - 2 /\ q + r = w * 1 + t
      BY ONLY <1>1, <1>5, <2>2, t = q + r - w
    <3>2. (w * 1 + t) \div w = 1
      <4>1. t \in 0 .. w - 1 /\ w \in Nat \ {0}
        BY ONLY <1>1, <3>1
      <4>. QED  BY ONLY <4>1, Quotient
    <3>3. (w * 1 + (t + 1)) % w = t + 1
      <4>1. t + 1 \in 0 .. w - 1 /\ w \in Nat \ {0}
        BY ONLY <1>1, <3>1
      <4>. QED  BY ONLY <4>1, Quotient
    <3>4. (w * 1 + t) + 1 = w * 1 + (t + 1)
      BY ONLY <1>1, <3>1
    <3>5. f = t + 1
      BY ONLY <1>4, <3>1, <3>2, <3>3, <3>4, Zenon
    <3>6. (w - 1) * (q + 2) = w * q - q + 2 * w - 2 /\ w * q \in Nat
      BY ONLY <1>1, q \in Nat
    <3>7. s + (w - 1 - f) = (w - 1) * (q + 2)
      BY ONLY <1>1, <1>2, <3>1, <3>5, <3>6, q \in Nat, r \in 0 .. w - 1
    <3>. QED  BY <3>7
  <2>. QED  BY ONLY <1>1, <1>5, <2>1, <2>2
<1>7. ((w - 1) * p + 0) % (w - 1) = 0 /\ (w - 1) * p + 0 = (w - 1) * p
  <2>. PICK v : v = w - 1
    OBVIOUS
  <2>1. v \in Nat \ {0} /\ 0 \in 0 .. v - 1
    BY <1>1
  <2>2. (v * p + 0) % v = 0
    BY ONLY <2>1, p \in Nat, Quotient
  <2>3. v * p + 0 = v * p
    BY ONLY <2>1, p \in Nat
  <2>. QED  BY ONLY <2>2, <2>3, v = w - 1, Zenon
<1>. QED  BY ONLY <1>6, <1>7, w = Sums!Word, f = Sums!Folded(s), Zenon

LEMMA SumDoneRight ==
  ASSUME SumsInv, Sums!SumDone
  PROVE  SumsInv'
<1>. PICK w, n : w = Sums!Word /\ n = Len(buffer)
  OBVIOUS
<1>1. /\ SumsType /\ Summed /\ summed = n /\ loop' = "sum done"
      /\ checksum' = w - 1 - Sums!Folded(ulCheckSum)
      /\ ulCheckSum' = ulCheckSum
  BY DEF SumsInv, Sums!SumDone
<1>2. PICK c \in Nat : ulCheckSum <= (w - 1) * c /\ 2 * c <= n + 1
  BY <1>1 DEF Summed
<1>3. ulCheckSum \in Nat /\ n <= MaxPacket /\ n \in Nat
  BY <1>1 DEF Summed, SumsType
<1>4. w \in Nat /\ w >= 4 /\ MaxPacket \in Nat /\ MaxPacket <= 2 * w - 1
  BY Widths
<1>5. c <= w
  BY ONLY <1>2, <1>3, <1>4, c \in Nat
<1>6. ulCheckSum <= (w - 1) * w
  <2>1. (w - 1) * c <= (w - 1) * w /\ (w - 1) * c \in Nat /\ (w - 1) * w \in Nat
    BY ONLY <1>4, <1>5, c \in Nat
  <2>. QED  BY ONLY <1>2, <1>3, <2>1
<1>7. (ulCheckSum + (w - 1 - Sums!Folded(ulCheckSum))) % (w - 1) = 0
  BY ONLY <1>3, <1>6, w = Sums!Word, FoldedRight
<1>8. Sums!ReceiverAccepts'
  <2>1. (ulCheckSum' + checksum') % (w - 1) = 0
    BY ONLY <1>1, <1>7, Zenon
  <2>. QED  BY <2>1 DEF Sums!ReceiverAccepts, Sums!Word
<1>. QED
  BY <1>1, <1>8 DEF SumsInv, SumsRight, Sums!SumsRight, Sums!AdlerByDefinition

LEMMA SumsStep == SumsInv /\ [Sums!Next]_(Sums!vars) => SumsInv'
<1>. SUFFICES ASSUME SumsInv, [Sums!Next]_(Sums!vars) PROVE SumsInv'
  OBVIOUS
<1>1. ASSUME UNCHANGED <<loop, buffer, summed, adlerA, adlerB, ulCheckSum, checksum>>
      PROVE  SumsInv'
  BY <1>1
  DEF SumsInv, SumsType, Adlered, Summed, Weighted, SumsRight, Sums!SumsRight,
      Sums!AdlerByDefinition, Sums!ReceiverAccepts, Sums!Word
<1>. QED
  BY <1>1, AdlerStepRight, AdlerDoneRight, SumWordRight, SumLastByteRight,
     SumDoneRight
  DEF Sums!Next, Sums!vars

LEMMA InitSums == Sums!Init => SumsInv
<1>. SUFFICES ASSUME Sums!Init PROVE SumsInv
  OBVIOUS
<1>1. /\ summed = 0 /\ adlerA = 1 /\ adlerB = 0 /\ ulCheckSum = 0
      /\ loop \in {"adler", "sum"}
  BY DEF Sums!Init
<1>2. /\ MaxSelection \in Nat /\ MaxPacket \in Nat
  BY SumsConstants, Widths DEF Sums!ChecksumsConstants
<1>3. PICK n \in Nat : /\ buffer \in [1 .. n -> 0 .. Byte - 1]
                       /\ loop = "sum" => n <= MaxPacket
  <2>1. CASE loop = "adler"
    <3>1. buffer \in Sums!Buffers(1 .. MaxSelection)
      BY <2>1 DEF Sums!Init
    <3>. QED  BY <1>2, <2>1, <3>1 DEF Sums!Buffers
  <2>2. CASE loop = "sum"
    <3>1. buffer \in Sums!Buffers(0 .. MaxPacket)
      BY <2>2 DEF Sums!Init
    <3>. QED  BY <1>2, <2>2, <3>1 DEF Sums!Buffers
  <2>. QED  BY <1>1, <2>1, <2>2
<1>4. Len(buffer) = n /\ DOMAIN buffer = 1 .. n
  BY <1>3
<1>5. SumsType
  BY <1>1, <1>3, <1>4 DEF SumsType
<1>6. Adlered
  <2>1. Sums!Total(buffer, 0) = 0 /\ Sums!Total(Weighted(buffer, 0), 0) = 0
    BY TotalNothing
  <2>2. Base \in Nat \ {0, 1}
    BY Widths
  <2>3. (1 + 0) % Base = 1 /\ (0 + 0) % Base = 0
    <3>1. (Base * 0 + 1) % Base = 1 /\ (Base * 0 + 0) % Base = 0
      <4>1. 1 \in 0 .. Base - 1 /\ 0 \in 0 .. Base - 1 /\ Base \in Nat \ {0}
        BY ONLY <2>2
      <4>. QED  BY ONLY <4>1, Quotient
    <3>2. Base * 0 + 1 = 1 + 0 /\ Base * 0 + 0 = 0 + 0
      BY ONLY <2>2
    <3>. QED  BY ONLY <3>1, <3>2, Zenon
  <2>. QED  BY <1>1, <2>1, <2>3 DEF Adlered
<1>7. loop = "sum" => Summed
  <2>1. (Sums!Word - 1) * 0 = 0
    BY Widths
  <2>. QED  BY <1>1, <1>3, <1>4, <2>1 DEF Summed
<1>. QED
  BY <1>1, <1>5, <1>6, <1>7
  DEF SumsInv, SumsRight, Sums!SumsRight, Sums!AdlerByDefinition,
      Sums!ReceiverAccepts

(* Adler32 of a selection is what its definition says, and the receiver of *)
(* a packet finds its checksum right, for every width of a byte and every  *)
(* length whose sum fits (plugin.cpp:142-161, ParseUrl.cpp:135-153).       *)
THEOREM SumsCorrect == Sums!Spec => []SumsRight
<1>1. SumsInv => SumsRight
  BY DEF SumsInv
<1>. QED  BY <1>1, InitSums, SumsStep, PTL DEF Sums!Spec

----------------------------------------------------------------------------
(* The export of an array.                                                 *)

ExportType ==
  /\ itype \in {1, 2, 4} /\ lBufLen \in Nat /\ exportAt \in Nat
  /\ exportPc \in {"create", "loop", "done", "failed"}

(* What a file has so far: an element for every step of the loop.          *)
Exported(f) ==
  /\ DOMAIN f = 1 .. Len(f) /\ Len(f) \in Nat
  /\ exportAt = Len(f) * itype
  /\ exportAt < lBufLen + itype
  /\ \A n \in DOMAIN f : f[n] = Export!Element((n - 1) * itype)

(* Behind what was there when the file was opened.                         *)
BehindEarlier ==
  /\ DOMAIN exported = 1 .. Len(exported) /\ Len(exported) \in Nat
  /\ kept \in Nat /\ kept <= Len(exported)
  /\ \A n \in 1 .. kept : exported[n] = Export!Earlier
  /\ Exported(Export!Own)

ExportInv ==
  /\ ExportType
  /\ exportPc = "create" =>
       exported \in {Export!NoFile, <<Export!Earlier>>} /\ exportAt = 0
  /\ exportPc \in {"loop", "done"} => BehindEarlier
  /\ exportPc = "done" => exportAt >= lBufLen

LEMMA ExportStep ==
  ASSUME ExportInv, [Export!Next]_(Export!vars)
  PROVE  ExportInv'
<1>1. ASSUME UNCHANGED <<exportPc, itype, lBufLen, sizeRead, exportAt, exported, kept>>
      PROVE  ExportInv'
  <2>1. Export!Own' = Export!Own /\ \A k : Export!Element(k)' = Export!Element(k)
    BY <1>1 DEF Export!Own, Export!Element, Export!At
  <2>2. Exported(Export!Own) => Exported(Export!Own)'
    BY <1>1, <2>1 DEF Exported
  <2>. QED  BY <1>1, <2>2 DEF ExportInv, ExportType, BehindEarlier
<1>2. ASSUME Export!CreateFile PROVE ExportInv'
  <2>1. /\ exportPc' = "loop" /\ exported' \in {<<>>, <<Export!Earlier>>}
        /\ kept' = Len(exported') /\ exportAt' = 0 /\ exportAt = 0
        /\ UNCHANGED <<itype, lBufLen>>
    BY <1>2 DEF Export!CreateFile, Export!AfterDelete, ExportInv
  <2>2. /\ DOMAIN exported' = 1 .. Len(exported') /\ Len(exported') \in Nat
        /\ \A n \in 1 .. Len(exported') : exported'[n] = Export!Earlier
    BY <2>1
  <2>3. Export!Own' = <<>>
    BY <2>1, <2>2 DEF Export!Own
  <2>4. Exported(Export!Own)'
    BY <2>1, <2>3 DEF Exported, ExportInv, ExportType
  <2>. QED  BY <2>1, <2>2, <2>4 DEF ExportInv, ExportType, BehindEarlier
<1>3. ASSUME Export!CreateFails PROVE ExportInv'
  BY <1>3 DEF Export!CreateFails, ExportInv, ExportType
<1>4. ASSUME Export!WriteElement PROVE ExportInv'
  <2>1. /\ BehindEarlier /\ exportPc = "loop" /\ exportAt < lBufLen
        /\ exported' = Append(exported, Export!Element(exportAt))
        /\ exportAt' = exportAt + itype
        /\ UNCHANGED <<exportPc, itype, lBufLen, sizeRead, kept>>
    BY <1>4 DEF Export!WriteElement, ExportInv
  <2>. PICK own : own = Export!Own
    OBVIOUS
  <2>. PICK l : l = Len(own)
    OBVIOUS
  <2>2. /\ l \in Nat /\ DOMAIN own = 1 .. l /\ exportAt = l * itype
        /\ \A n \in 1 .. l : own[n] = Export!Element((n - 1) * itype)
    BY <2>1 DEF BehindEarlier, Exported
  <2>3. /\ DOMAIN exported = 1 .. kept + l /\ Len(exported) = kept + l
        /\ kept \in Nat /\ \A n \in 1 .. l : own[n] = exported[kept + n]
    <3>1. own = [n \in 1 .. Len(exported) - kept |-> exported[kept + n]]
      BY DEF Export!Own
    <3>2. Len(exported) - kept \in Nat
      BY <2>1 DEF BehindEarlier
    <3>3. l = Len(exported) - kept
      BY <3>1, <3>2
    <3>. QED  BY <2>1, <3>1, <3>3 DEF BehindEarlier
  <2>4. /\ Len(exported') = kept + l + 1 /\ DOMAIN exported' = 1 .. kept + l + 1
        /\ \A n \in 1 .. kept + l : exported'[n] = exported[n]
        /\ exported'[kept + l + 1] = Export!Element(exportAt)
    BY <2>1, <2>2, <2>3
  <2>5. exportAt' = (l + 1) * itype /\ exportAt' < lBufLen + itype /\ exportAt' \in Nat
    BY <2>1, <2>2 DEF ExportInv, ExportType
  <2>6. Export!Own' = [n \in 1 .. l + 1 |-> exported'[kept + n]]
    <3>1. Len(exported') - kept' = l + 1
      BY <2>1, <2>2, <2>3, <2>4
    <3>. QED  BY <2>1, <3>1 DEF Export!Own
  <2>7. \A n \in 1 .. l + 1 : Export!Own'[n] = Export!Element((n - 1) * itype)
    <3>. TAKE n \in 1 .. l + 1
    <3>1. CASE n = l + 1
      <4>1. n - 1 = l /\ kept + n = kept + l + 1
        BY <2>2, <2>3, <3>1
      <4>. QED  BY <2>2, <2>4, <2>6, <3>1, <4>1
    <3>2. CASE n # l + 1
      <4>1. n \in 1 .. l /\ kept + n \in 1 .. kept + l
        BY <2>2, <2>3, <3>2
      <4>. QED  BY <2>2, <2>3, <2>4, <2>6, <4>1
    <3>. QED  BY <3>1, <3>2
  <2>8. \A k : Export!Element(k)' = Export!Element(k)
    BY <2>1 DEF Export!Element, Export!At
  <2>9. DOMAIN Export!Own' = 1 .. l + 1 /\ Len(Export!Own') = l + 1
    BY <2>2, <2>6
  <2>10. Exported(Export!Own)'
    BY <2>1, <2>2, <2>5, <2>7, <2>8, <2>9 DEF Exported
  <2>11. BehindEarlier'
    <3>1. \A n \in 1 .. kept : exported'[n] = Export!Earlier
      BY <2>1, <2>2, <2>3, <2>4 DEF BehindEarlier
    <3>. QED  BY <2>1, <2>2, <2>3, <2>4, <2>10, <3>1 DEF BehindEarlier, Export!Earlier
  <2>. QED  BY <2>1, <2>5, <2>11 DEF ExportInv, ExportType
<1>5. ASSUME Export!Close PROVE ExportInv'
  <2>1. \A k : Export!Element(k)' = Export!Element(k)
    BY <1>5 DEF Export!Close, Export!Element, Export!At
  <2>2. BehindEarlier'
    BY <1>5, <2>1 DEF Export!Close, BehindEarlier, Exported, Export!Own, ExportInv
  <2>. QED  BY <1>5, <2>2 DEF Export!Close, ExportInv, ExportType
<1>. QED
  BY <1>1, <1>2, <1>3, <1>4, <1>5 DEF Export!Next, Export!vars

LEMMA ConcatIs ==
  ASSUME NEW X, NEW s \in Seq(X), NEW t \in Seq(X)
  PROVE  /\ Len(s \o t) = Len(s) + Len(t)
         /\ s \o t = [n \in 1 .. Len(s \o t) |-> (s \o t)[n]]
         /\ \A n \in 1 .. Len(s) + Len(t) :
              (s \o t)[n] = IF n <= Len(s) THEN s[n] ELSE t[n - Len(s)]
<1>1. /\ s \o t \in Seq(X) /\ Len(s \o t) = Len(s) + Len(t)
      /\ \A n \in 1 .. Len(s) + Len(t) :
           (s \o t)[n] = IF n <= Len(s) THEN s[n] ELSE t[n - Len(s)]
  OBVIOUS
<1>2. ASSUME NEW u \in Seq(X) PROVE u = [n \in 1 .. Len(u) |-> u[n]]
  OBVIOUS
<1>. QED  BY <1>1, <1>2

LEMMA RowIsSeq ==
  ASSUME NEW X, NEW q \in Nat, NEW f \in [Nat -> X], NEW p \in Nat
  PROVE  LET s == [n \in 1 .. q |-> f[p + n - 1]] IN s \in Seq(X) /\ Len(s) = q
<1>. DEFINE s == [n \in 1 .. q |-> f[p + n - 1]]
<1>1. \A n \in 1 .. q : p + n - 1 \in Nat
  OBVIOUS
<1>2. s \in [1 .. q -> X]
  BY <1>1
<1>3. s \in Seq(X)
  <2>. HIDE DEF s
  <2>. QED  BY <1>2
<1>. QED  BY <1>3

LEMMA RowsJoin ==
  ASSUME NEW X, NEW f \in [Nat -> X], NEW q \in Nat, NEW r \in Nat
  PROVE  [n \in 1 .. q |-> f[n - 1]] \o [n \in 1 .. r |-> f[q + n - 1]]
           = [n \in 1 .. q + r |-> f[n - 1]]
<1>. PICK s : s = [n \in 1 .. q |-> f[n - 1]]
  OBVIOUS
<1>. PICK t : t = [n \in 1 .. r |-> f[q + n - 1]]
  OBVIOUS
<1>1. s = [n \in 1 .. q |-> f[0 + n - 1]]
  <2>1. \A n \in 1 .. q : 0 + n - 1 = n - 1
    OBVIOUS
  <2>. QED  BY <2>1
<1>2. s \in Seq(X) /\ Len(s) = q /\ t \in Seq(X) /\ Len(t) = r
  BY <1>1, RowIsSeq
<1>3. \A n \in 1 .. q : s[n] = f[n - 1]
  OBVIOUS
<1>4. \A n \in 1 .. r : t[n] = f[q + n - 1]
  OBVIOUS
<1>5. ASSUME NEW n \in 1 .. q + r PROVE (s \o t)[n] = f[n - 1]
  <2>1. (s \o t)[n] = IF n <= q THEN s[n] ELSE t[n - q]
    BY ONLY <1>2, n \in 1 .. q + r, q \in Nat, r \in Nat, ConcatIs
  <2>2. CASE n <= q
    BY <1>3, <2>1, <2>2
  <2>3. CASE ~ (n <= q)
    <3>1. n - q \in 1 .. r /\ q + (n - q) - 1 = n - 1
      BY <2>3
    <3>2. t[n - q] = f[q + (n - q) - 1]
      BY <1>4, <3>1
    <3>. QED  BY ONLY <2>1, <2>3, <3>1, <3>2
  <2>. QED  BY <2>2, <2>3
<1>6. s \o t = [n \in 1 .. q + r |-> (s \o t)[n]]
  <2>1. /\ s \o t = [n \in 1 .. Len(s \o t) |-> (s \o t)[n]]
        /\ Len(s \o t) = q + r
    BY ONLY <1>2, ConcatIs
  <2>. QED  BY ONLY <2>1, Zenon
<1>7. s \o t = [n \in 1 .. q + r |-> f[n - 1]]
  BY ONLY <1>5, <1>6, Zenon
<1>. QED  BY ONLY <1>7, s = [n \in 1 .. q |-> f[n - 1]], t = [n \in 1 .. r |-> f[q + n - 1]], Zenon

(* What is from the buffer's start on, as a function.                      *)
Stored == [k \in Nat |-> Export!At(k)]

(* What the elements so far make together.                                 *)
LEMMA ElementsJoin ==
  ASSUME ExportType, NEW own, Exported(own), NEW g, NEW ss,
         ss = [n \in DOMAIN own |-> own[n].bytes],
         Joins(g, ss, Len(own)), NEW m \in 1 .. Len(own)
  PROVE  g[m] = [n \in 1 .. m * itype |-> Stored[n - 1]]
<1>. DEFINE S == {n \in 1 .. Len(own) :
                    g[n] # [k \in 1 .. n * itype |-> Stored[k - 1]]}
<1>. SUFFICES ASSUME S # {} PROVE FALSE
  OBVIOUS
<1>1. /\ Len(own) \in Nat /\ DOMAIN own = 1 .. Len(own)
      /\ itype \in Nat \ {0}
  BY DEF Exported, ExportType
<1>2. PICK k \in S : \A j \in S : k <= j
  <2>1. S \subseteq Nat
    BY <1>1
  <2>. QED  BY <2>1, Smallest
<1>3. /\ k \in 1 .. Len(own) /\ k \in Nat /\ k >= 1
      /\ g[k] # [n \in 1 .. k * itype |-> Stored[n - 1]]
  BY <1>1, <1>2
<1>. PICK q : q = (k - 1) * itype
  OBVIOUS
<1>4. q \in Nat /\ k * itype = q + itype
  BY <1>1, <1>3
<1>5. ss[k] = [n \in 1 .. itype |-> Stored[q + n - 1]]
  <2>1. own[k] = Export!Element(q)
    BY <1>1, <1>3 DEF Exported
  <2>2. ss[k] = [n \in 1 .. itype |-> Export!At(q + n - 1)]
    BY <1>1, <1>3, <2>1 DEF Export!Element
  <2>3. \A n \in 1 .. itype : Stored[q + n - 1] = Export!At(q + n - 1)
    <3>1. \A n \in 1 .. itype : q + n - 1 \in Nat
      BY ONLY <1>1, <1>4
    <3>. QED  BY <3>1 DEF Stored
  <2>. QED  BY ONLY <2>2, <2>3, Zenon
<1>6. CASE k = 1
  <2>1. g[k] = ss[k]
    BY <1>1, <1>3, <1>6 DEF Joins
  <2>2. q = 0 /\ k * itype = itype
    BY <1>1, <1>6
  <2>3. \A n \in 1 .. itype : 0 + n - 1 = n - 1
    BY <1>1
  <2>4. ss[k] = [n \in 1 .. itype |-> Stored[n - 1]]
    BY ONLY <1>5, <2>2, <2>3, Zenon
  <2>. QED  BY ONLY <1>3, <2>1, <2>2, <2>4, Zenon
<1>7. CASE k # 1
  <2>1. k - 1 \in 1 .. Len(own) /\ ~ (k <= k - 1)
    BY <1>1, <1>3, <1>7
  <2>2. g[k - 1] = [n \in 1 .. q |-> Stored[n - 1]]
    BY <1>2, <2>1
  <2>3. g[k] = g[k - 1] \o ss[k]
    BY <1>3, <1>7 DEF Joins
  <2>. PICK X : X = {Export!At(n) : n \in Nat}
    OBVIOUS
  <2>4. Stored \in [Nat -> X] /\ itype \in Nat
    BY <1>1 DEF Stored
  <2>5. [n \in 1 .. q |-> Stored[n - 1]] \o [n \in 1 .. itype |-> Stored[q + n - 1]]
          = [n \in 1 .. q + itype |-> Stored[n - 1]]
    <3>. PICK f : f = Stored
      OBVIOUS
    <3>1. f \in [Nat -> X]
      BY <2>4
    <3>2. [n \in 1 .. q |-> f[n - 1]] \o [n \in 1 .. itype |-> f[q + n - 1]]
            = [n \in 1 .. q + itype |-> f[n - 1]]
      BY ONLY <1>4, <2>4, <3>1, RowsJoin, SMTT(30)
    <3>. QED  BY ONLY <3>2, f = Stored, Zenon
  <2>. QED  BY ONLY <1>3, <1>4, <1>5, <2>2, <2>3, <2>5, Zenon
<1>. QED  BY <1>6, <1>7

(* Lines of q elements, the first of one more.                             *)
LEMMA LineElements ==
  ASSUME NEW m \in Nat, NEW n \in Nat, m >= 1, m <= n, NEW q \in {16, 8, 4},
         m = 1 \/ (m - 2 # 0 /\ (m - 2) % q = 0),
         \A k \in m .. n - 1 : k - 1 = 0 \/ (k - 1) % q # 0
  PROVE  LET last == IF m = 1 THEN q + 1 ELSE m + q - 1
         IN  n <= last /\ ((n - 1 # 0 /\ (n - 1) % q = 0) <=> n = last)
<1>1. CASE q = 16
  <2>1. m = 1 \/ (m - 2 # 0 /\ (m - 2) % 16 = 0)
    BY <1>1
  <2>2. \A k \in m .. n - 1 : k - 1 = 0 \/ (k - 1) % 16 # 0
    BY <1>1
  <2>3. CASE m = 1
    <3>1. ~ (17 \in m .. n - 1)
      <4>. SUFFICES ASSUME NEW k \in m .. n - 1, k = 17 PROVE FALSE
        OBVIOUS
      <4>1. k - 1 = 16
        OBVIOUS
      <4>2. k - 1 # 0 /\ (k - 1) % 16 = 0
        BY ONLY <4>1
      <4>. QED  BY <2>2, <4>2
    <3>. QED  BY <1>1, <2>3, <3>1
  <2>4. CASE m # 1
    <3>1. (m + 14) % 16 = 0 /\ m + 15 - 1 = m + 14 /\ m + 14 # 0
      BY <2>1, <2>4
    <3>2. ~ (m + 15 \in m .. n - 1)
      <4>. SUFFICES ASSUME NEW k \in m .. n - 1, k = m + 15 PROVE FALSE
        OBVIOUS
      <4>1. k - 1 = m + 14
        BY <3>1
      <4>2. k - 1 # 0 /\ (k - 1) % 16 = 0
        BY ONLY <3>1, <4>1
      <4>. QED  BY <2>2, <4>2
    <3>3. n <= m + 15
      BY <3>2
    <3>4. (n - 1 # 0 /\ (n - 1) % 16 = 0) <=> n = m + 15
      BY <2>1, <2>4, <3>1, <3>3
    <3>. QED  BY <1>1, <2>4, <3>3, <3>4
  <2>. QED  BY <2>3, <2>4
<1>2. CASE q = 8
  <2>1. m = 1 \/ (m - 2 # 0 /\ (m - 2) % 8 = 0)
    BY <1>2
  <2>2. \A k \in m .. n - 1 : k - 1 = 0 \/ (k - 1) % 8 # 0
    BY <1>2
  <2>3. CASE m = 1
    <3>1. ~ (9 \in m .. n - 1)
      <4>. SUFFICES ASSUME NEW k \in m .. n - 1, k = 9 PROVE FALSE
        OBVIOUS
      <4>1. k - 1 = 8
        OBVIOUS
      <4>2. k - 1 # 0 /\ (k - 1) % 8 = 0
        BY ONLY <4>1
      <4>. QED  BY <2>2, <4>2
    <3>. QED  BY <1>2, <2>3, <3>1
  <2>4. CASE m # 1
    <3>1. (m + 6) % 8 = 0 /\ m + 7 - 1 = m + 6 /\ m + 6 # 0
      BY <2>1, <2>4
    <3>2. ~ (m + 7 \in m .. n - 1)
      <4>. SUFFICES ASSUME NEW k \in m .. n - 1, k = m + 7 PROVE FALSE
        OBVIOUS
      <4>1. k - 1 = m + 6
        BY <3>1
      <4>2. k - 1 # 0 /\ (k - 1) % 8 = 0
        BY ONLY <3>1, <4>1
      <4>. QED  BY <2>2, <4>2
    <3>3. n <= m + 7
      BY <3>2
    <3>4. (n - 1 # 0 /\ (n - 1) % 8 = 0) <=> n = m + 7
      BY <2>1, <2>4, <3>1, <3>3
    <3>. QED  BY <1>2, <2>4, <3>3, <3>4
  <2>. QED  BY <2>3, <2>4
<1>3. CASE q = 4
  <2>1. m = 1 \/ (m - 2 # 0 /\ (m - 2) % 4 = 0)
    BY <1>3
  <2>2. \A k \in m .. n - 1 : k - 1 = 0 \/ (k - 1) % 4 # 0
    BY <1>3
  <2>3. CASE m = 1
    <3>1. ~ (5 \in m .. n - 1)
      <4>. SUFFICES ASSUME NEW k \in m .. n - 1, k = 5 PROVE FALSE
        OBVIOUS
      <4>1. k - 1 = 4
        OBVIOUS
      <4>2. k - 1 # 0 /\ (k - 1) % 4 = 0
        BY ONLY <4>1
      <4>. QED  BY <2>2, <4>2
    <3>. QED  BY <1>3, <2>3, <3>1
  <2>4. CASE m # 1
    <3>1. (m + 2) % 4 = 0 /\ m + 3 - 1 = m + 2 /\ m + 2 # 0
      BY <2>1, <2>4
    <3>2. ~ (m + 3 \in m .. n - 1)
      <4>. SUFFICES ASSUME NEW k \in m .. n - 1, k = m + 3 PROVE FALSE
        OBVIOUS
      <4>1. k - 1 = m + 2
        BY <3>1
      <4>2. k - 1 # 0 /\ (k - 1) % 4 = 0
        BY ONLY <3>1, <4>1
      <4>. QED  BY <2>2, <4>2
    <3>3. n <= m + 3
      BY <3>2
    <3>4. (n - 1 # 0 /\ (n - 1) % 4 = 0) <=> n = m + 3
      BY <2>1, <2>4, <3>1, <3>3
    <3>. QED  BY <1>3, <2>4, <3>3, <3>4
  <2>. QED  BY <2>3, <2>4
<1>. QED  BY <1>1, <1>2, <1>3

(* A line of elements of t bytes: where it ends, and how long it is then.  *)
LEMMA LineBytes ==
  ASSUME NEW m \in Nat, NEW n \in Nat, m >= 1, m <= n, NEW t \in {1, 2, 4},
         m = 1 \/ ((m - 2) * t # 0 /\ ((m - 2) * t) % 16 = 0),
         \A k \in m .. n - 1 : ~ ((k - 1) * t # 0 /\ ((k - 1) * t) % 16 = 0)
  PROVE  LET bytes == (n - m + 1) * t
             most == IF m = 1 THEN 16 + t ELSE 16
         IN  /\ bytes <= most
             /\ ((n - 1) * t # 0 /\ ((n - 1) * t) % 16 = 0) <=> bytes = most
<1>. DEFINE last(q) == IF m = 1 THEN q + 1 ELSE m + q - 1
<1>0. m = 1 \/ (m - 1 \in Nat /\ (m - 1) - 1 = m - 2)
  OBVIOUS
<1>1. CASE t = 1
  <2>1. \A k \in Nat : (k - 1) * 1 # 0 /\ ((k - 1) * 1) % 16 = 0
                        <=> k - 1 # 0 /\ (k - 1) % 16 = 0
    OBVIOUS
  <2>2. m = 1 \/ (m - 2 # 0 /\ (m - 2) % 16 = 0)
    BY <1>0, <1>1, <2>1
  <2>3. \A k \in m .. n - 1 : k - 1 = 0 \/ (k - 1) % 16 # 0
    <3>. SUFFICES ASSUME NEW k \in m .. n - 1 PROVE k - 1 = 0 \/ (k - 1) % 16 # 0
      OBVIOUS
    <3>1. k \in Nat /\ ~ ((k - 1) * 1 # 0 /\ ((k - 1) * 1) % 16 = 0)
      BY <1>1
    <3>. QED  BY <2>1, <3>1
  <2>4. n <= last(16) /\ ((n - 1 # 0 /\ (n - 1) % 16 = 0) <=> n = last(16))
    BY ONLY <2>2, <2>3, m \in Nat, n \in Nat, m >= 1, m <= n, LineElements
  <2>. QED  BY <1>1, <2>1, <2>4
<1>2. CASE t = 2
  <2>1. \A k \in Nat : (k - 1) * 2 # 0 /\ ((k - 1) * 2) % 16 = 0
                        <=> k - 1 # 0 /\ (k - 1) % 8 = 0
    OBVIOUS
  <2>2. m = 1 \/ (m - 2 # 0 /\ (m - 2) % 8 = 0)
    BY <1>0, <1>2, <2>1
  <2>3. \A k \in m .. n - 1 : k - 1 = 0 \/ (k - 1) % 8 # 0
    <3>. SUFFICES ASSUME NEW k \in m .. n - 1 PROVE k - 1 = 0 \/ (k - 1) % 8 # 0
      OBVIOUS
    <3>1. k \in Nat /\ ~ ((k - 1) * 2 # 0 /\ ((k - 1) * 2) % 16 = 0)
      BY <1>2
    <3>. QED  BY <2>1, <3>1
  <2>4. n <= last(8) /\ ((n - 1 # 0 /\ (n - 1) % 8 = 0) <=> n = last(8))
    BY ONLY <2>2, <2>3, m \in Nat, n \in Nat, m >= 1, m <= n, LineElements
  <2>. QED  BY <1>2, <2>1, <2>4
<1>3. CASE t = 4
  <2>1. \A k \in Nat : (k - 1) * 4 # 0 /\ ((k - 1) * 4) % 16 = 0
                        <=> k - 1 # 0 /\ (k - 1) % 4 = 0
    OBVIOUS
  <2>2. m = 1 \/ (m - 2 # 0 /\ (m - 2) % 4 = 0)
    BY <1>0, <1>3, <2>1
  <2>3. \A k \in m .. n - 1 : k - 1 = 0 \/ (k - 1) % 4 # 0
    <3>. SUFFICES ASSUME NEW k \in m .. n - 1 PROVE k - 1 = 0 \/ (k - 1) % 4 # 0
      OBVIOUS
    <3>1. k \in Nat /\ ~ ((k - 1) * 4 # 0 /\ ((k - 1) * 4) % 16 = 0)
      BY <1>3
    <3>. QED  BY <2>1, <3>1
  <2>4. n <= last(4) /\ ((n - 1 # 0 /\ (n - 1) % 4 = 0) <=> n = last(4))
    BY ONLY <2>2, <2>3, m \in Nat, n \in Nat, m >= 1, m <= n, LineElements
  <2>. QED  BY <1>3, <2>1, <2>4
<1>. QED  BY <1>1, <1>2, <1>3

LEMMA ExportInvRight ==
  ExportInv => ExportRight
<1>. SUFFICES ASSUME ExportInv PROVE ExportRight
  OBVIOUS
<1>. DEFINE own == Export!Own
<1>1. Export!ExportedWhole
  <2>. SUFFICES ASSUME exportPc = "done"
       PROVE  LET all == FlattenSeq([n \in DOMAIN own |-> own[n].bytes]) IN
              /\ Len(all) \in lBufLen .. lBufLen + itype - 1 /\ Len(all) % itype = 0
              /\ all = [n \in 1 .. Len(all) |-> Export!At(n - 1)]
              /\ \A n \in 1 .. kept : exported[n] = Export!Earlier
    BY Zenon DEF Export!ExportedWhole, Export!FlattenSeq, FlattenSeq
  <2>. HIDE DEF own
  <2>. DEFINE ss == [n \in DOMAIN own |-> own[n].bytes]
              all == FlattenSeq(ss)
  <2>1. /\ ExportType /\ Exported(own) /\ exportAt >= lBufLen
        /\ itype \in {1, 2, 4} /\ lBufLen \in Nat
        /\ \A n \in 1 .. kept : exported[n] = Export!Earlier
    BY DEF ExportInv, ExportType, BehindEarlier, own
  <2>. PICK l : l = Len(own)
    OBVIOUS
  <2>2. /\ l \in Nat /\ DOMAIN own = 1 .. l /\ exportAt = l * itype
        /\ exportAt < lBufLen + itype
    BY <2>1 DEF Exported
  <2>3. DOMAIN ss = 1 .. l /\ ss = [n \in 1 .. l |-> ss[n]] /\ Len(ss) = l
    BY <2>2
  <2>4. all = [n \in 1 .. exportAt |-> Stored[n - 1]]
    <3>1. CASE l = 0
      <4>1. ss = <<>>
        BY <2>3, <3>1
      <4>2. all = <<>>
        BY <4>1 DEF FlattenSeq
      <4>3. exportAt = 0
        BY <2>1, <2>2, <3>1
      <4>4. [n \in 1 .. 0 |-> Stored[n - 1]] = <<>>
        OBVIOUS
      <4>. QED  BY ONLY <4>2, <4>3, <4>4, Zenon
    <3>2. CASE l # 0
      <4>. HIDE DEF ss
      <4>1. PICK g : Joins(g, ss, l) /\ FlattenSeq(ss) = g[l]
        BY <2>2, <2>3, <3>2, FlattenJoins
      <4>2. l \in 1 .. l
        BY <2>2, <3>2
      <4>3. ss = [n \in DOMAIN own |-> own[n].bytes]
        BY DEF ss
      <4>4. Joins(g, ss, Len(own)) /\ Len(own) \in 1 .. Len(own)
        BY ONLY l = Len(own), <4>1, <4>2, Zenon
      <4>5. g[Len(own)] = [n \in 1 .. Len(own) * itype |-> Stored[n - 1]]
        BY ONLY <2>1, <4>3, <4>4, ElementsJoin
      <4>6. g[l] = [n \in 1 .. l * itype |-> Stored[n - 1]]
        BY ONLY l = Len(own), <4>5, Zenon
      <4>. QED  BY <2>2, <4>1, <4>6
    <3>. QED  BY <3>1, <3>2
  <2>5. exportAt \in Nat /\ Len(all) = exportAt
    BY <2>1, <2>4 DEF ExportType
  <2>6. Len(all) \in lBufLen .. lBufLen + itype - 1 /\ Len(all) % itype = 0
    <3>. HIDE DEF all
    <3>1. (l * itype) % itype = 0
      <4>1. (l * 1) % 1 = 0 /\ (l * 2) % 2 = 0 /\ (l * 4) % 4 = 0
        BY <2>2
      <4>. QED  BY <2>1, <4>1
    <3>. QED  BY <2>1, <2>2, <2>5, <3>1
  <2>7. all = [n \in 1 .. Len(all) |-> Export!At(n - 1)]
    <3>1. \A n \in 1 .. exportAt : Stored[n - 1] = Export!At(n - 1)
      <4>. SUFFICES ASSUME NEW n \in 1 .. exportAt PROVE Stored[n - 1] = Export!At(n - 1)
        OBVIOUS
      <4>1. n - 1 \in Nat
        BY <2>5
      <4>. QED  BY <4>1 DEF Stored
    <3>. HIDE DEF all
    <3>. QED  BY ONLY <2>4, <2>5, <3>1, Zenon
  <2>. QED  BY <2>1, <2>6, <2>7
<1>2. Export!LinesFull
  <2>. SUFFICES ASSUME exportPc \in {"loop", "done"},
                       NEW m \in DOMAIN own, NEW n \in DOMAIN own,
                       m <= n, Export!LineOf(m, n)
                PROVE  LET bytes == (n - m + 1) * itype
                           most == IF m = 1 THEN 16 + itype ELSE 16
                       IN  bytes <= most /\ (own[n].newline <=> bytes = most)
    BY Zenon DEF Export!LinesFull
  <2>. HIDE DEF own
  <2>1. Exported(own) /\ itype \in {1, 2, 4}
    BY DEF ExportInv, ExportType, BehindEarlier, own
  <2>2. /\ DOMAIN own = 1 .. Len(own) /\ Len(own) \in Nat
        /\ \A k \in DOMAIN own :
             own[k].newline <=> (k - 1) * itype # 0 /\ ((k - 1) * itype) % 16 = 0
    <3>1. \A k \in DOMAIN own : own[k] = Export!Element((k - 1) * itype)
      BY <2>1 DEF Exported
    <3>2. \A o : Export!Element(o).newline = (o # 0 /\ o % 16 = 0)
      BY DEF Export!Element
    <3>. HIDE DEF Export!Element
    <3>3. DOMAIN own = 1 .. Len(own) /\ Len(own) \in Nat
      BY <2>1 DEF Exported
    <3>. QED  BY ONLY <3>1, <3>2, <3>3
  <2>3. m \in Nat /\ n \in Nat /\ m >= 1 /\ n <= Len(own)
    BY <2>2
  <2>4. m = 1 \/ ((m - 2) * itype # 0 /\ ((m - 2) * itype) % 16 = 0)
    <3>. SUFFICES ASSUME m # 1 PROVE (m - 2) * itype # 0 /\ ((m - 2) * itype) % 16 = 0
      OBVIOUS
    <3>1. m - 1 \in DOMAIN own /\ (m - 1) - 1 = m - 2
      BY <2>2, <2>3
    <3>2. own[m - 1].newline
      BY DEF Export!LineOf, own
    <3>. QED  BY <2>2, <3>1, <3>2
  <2>5. ASSUME NEW k \in m .. n - 1
        PROVE  ~ ((k - 1) * itype # 0 /\ ((k - 1) * itype) % 16 = 0)
    <3>1. k \in DOMAIN own
      BY <2>2, <2>3
    <3>2. ~ own[k].newline
      BY DEF Export!LineOf, own
    <3>. QED  BY <2>2, <3>1, <3>2
  <2>6. LET bytes == (n - m + 1) * itype
            most == IF m = 1 THEN 16 + itype ELSE 16
        IN  /\ bytes <= most
            /\ ((n - 1) * itype # 0 /\ ((n - 1) * itype) % 16 = 0) <=> bytes = most
    BY ONLY <2>1, <2>3, <2>4, <2>5, m <= n, LineBytes, Zenon
  <2>. QED  BY ONLY <2>2, <2>6, n \in DOMAIN own, Zenon
<1>. QED  BY <1>1, <1>2 DEF ExportRight, Export!ExportRight

(* The elements of an exported array are the bytes of the range, each once *)
(* and in order, behind whatever could not be deleted; a line ends where   *)
(* it is full: the first after sixteen bytes and an element, every later   *)
(* one after sixteen; for every element size, every length and whatever    *)
(* part of the range could be read (grcasm.cpp:1172-1263).                 *)
THEOREM ArraysWhole == Export!Spec => []ExportRight
<1>1. Export!Init => ExportInv
  BY ExportConstants
  DEF Export!Init, Export!ArrayExportConstants, Export!Type, ExportInv, ExportType
<1>2. ExportInv /\ [Export!Next]_(Export!vars) => ExportInv'
  BY ExportStep
<1>. QED  BY <1>1, <1>2, ExportInvRight, PTL DEF Export!Spec
----------------------------------------------------------------------------
(* The string splitters.  What is to come of a text from a place on is     *)
(* given by what is to come from a later one.                              *)

Rest(c, a, n, D, E, H, J) ==
  c = [i \in a .. n |-> IF i \in D THEN E[i] ELSE H[i] \o c[J[i]]]

LEMMA RestExists ==
  ASSUME NEW n \in Nat, NEW D, NEW E, NEW H, NEW J,
         \A i \in 1 .. n : i \notin D => J[i] \in i + 1 .. n
  PROVE  \E c : Rest(c, 1, n, D, E, H, J)
<1>. DEFINE Is(c, a) == Rest(c, a, n, D, E, H, J)
            S == {d \in Nat : d <= n /\ ~ \E c : Is(c, n + 1 - d)}
<1>1. ASSUME S # {} PROVE FALSE
  <2>1. PICK d \in S : \A j \in S : d <= j
    <3>1. S \subseteq Nat
      OBVIOUS
    <3>. QED  BY <1>1, <3>1, Smallest
  <2>. PICK a : a = n + 1 - d
    OBVIOUS
  <2>2. d \in Nat /\ d <= n /\ ~ \E c : Is(c, a)
    BY <2>1
  <2>3. d # 0
    <3>. SUFFICES ASSUME d = 0 PROVE FALSE
      OBVIOUS
    <3>1. a = n + 1 /\ a .. n = {}
      BY <2>2
    <3>2. Is([i \in a .. n |-> 0], a)
      BY <3>1 DEF Rest
    <3>. QED  BY <2>2, <3>2
  <2>4. d - 1 \in Nat /\ d - 1 <= n /\ n + 1 - (d - 1) = a + 1 /\ ~ (d <= d - 1)
        /\ a \in 1 .. n
    BY <2>2, <2>3
  <2>5. d - 1 \notin S
    <3>. HIDE DEF S
    <3>. QED  BY <2>1, <2>4
  <2>6. PICK c : Is(c, a + 1)
    BY <2>4, <2>5
  <2>. DEFINE h == [i \in a .. n |-> IF i # a THEN c[i]
                      ELSE IF a \in D THEN E[a] ELSE H[a] \o c[J[a]]]
  <2>7. ASSUME NEW i \in a .. n
        PROVE  h[i] = IF i \in D THEN E[i] ELSE H[i] \o h[J[i]]
    <3>. PICK j : j = J[i]
      OBVIOUS
    <3>1. i \in 1 .. n /\ (i \notin D => j \in i + 1 .. n)
      BY <2>4
    <3>2. i \notin D => j \in a + 1 .. n /\ j \in a .. n /\ j # a
      BY <2>4, <3>1
    <3>3. i \notin D => h[j] = c[j]
      BY <3>2
    <3>4. CASE i = a
      <4>1. h[i] = IF i \in D THEN E[i] ELSE H[i] \o c[j]
        BY <3>4
      <4>. QED  BY <3>3, <4>1
    <3>5. CASE i # a
      <4>1. h[i] = c[i] /\ i \in a + 1 .. n
        BY <2>4, <3>5
      <4>2. c[i] = IF i \in D THEN E[i] ELSE H[i] \o c[j]
        BY <2>6, <4>1 DEF Rest
      <4>. QED  BY <3>3, <4>1, <4>2
    <3>. QED  BY <3>4, <3>5
  <2>8. h = [i \in a .. n |-> h[i]]
    OBVIOUS
  <2>. HIDE DEF h
  <2>9. Is(h, a)
    BY <2>7, <2>8 DEF Rest
  <2>. QED  BY <2>2, <2>9
<1>2. n \in Nat /\ n <= n /\ n + 1 - n = 1
  OBVIOUS
<1>3. n \notin S
  <2>. HIDE DEF S
  <2>. QED  BY <1>1
<1>. QED  BY <1>2, <1>3

LEMMA RestIsSeq ==
  ASSUME NEW X, NEW n \in Nat, NEW D, NEW E, NEW H, NEW J,
         \A i \in 1 .. n : E[i] \in Seq(X) /\ H[i] \in Seq(X),
         \A i \in 1 .. n : i \notin D => J[i] \in i + 1 .. n,
         NEW c, Rest(c, 1, n, D, E, H, J), NEW k \in 1 .. n
  PROVE  c[k] \in Seq(X)
<1>. DEFINE S == {d \in Nat : d < n /\ c[n - d] \notin Seq(X)}
<1>1. ASSUME S # {} PROVE FALSE
  <2>1. PICK d \in S : \A j \in S : d <= j
    <3>1. S \subseteq Nat
      OBVIOUS
    <3>. QED  BY <1>1, <3>1, Smallest
  <2>. PICK i : i = n - d
    OBVIOUS
  <2>2. i \in 1 .. n /\ c[i] \notin Seq(X)
    BY <2>1
  <2>. PICK j : j = J[i]
    OBVIOUS
  <2>3. c[i] = IF i \in D THEN E[i] ELSE H[i] \o c[j]
    BY <2>2 DEF Rest
  <2>4. i \notin D /\ j \in i + 1 .. n /\ H[i] \in Seq(X)
    BY <2>2, <2>3
  <2>5. n - j \in Nat /\ n - j < n /\ ~ (d <= n - j) /\ n - (n - j) = j
    BY <2>1, <2>2, <2>4
  <2>6. n - j \notin S
    <3>. HIDE DEF S
    <3>. QED  BY <2>1, <2>5
  <2>7. c[j] \in Seq(X)
    BY <2>5, <2>6
  <2>8. H[i] \o c[j] \in Seq(X)
    BY <2>4, <2>7
  <2>. QED  BY <2>2, <2>3, <2>4, <2>8
<1>2. n - k \in Nat /\ n - k < n /\ n - (n - k) = k
  OBVIOUS
<1>3. n - k \notin S
  <2>. HIDE DEF S
  <2>. QED  BY <1>1
<1>. QED  BY <1>2, <1>3

LEMMA LeastIs ==
  ASSUME NEW S, S \subseteq Nat, S # {}
  PROVE  Splits!Least(S) \in S /\ \A j \in S : Splits!Least(S) <= j
<1>1. \E k \in S : \A j \in S : k <= j
  BY Smallest
<1>. QED  BY <1>1, Zenon DEF Splits!Least

LEMMA KeptWord ==
  ASSUME NEW X, NEW w \in Seq(X)
  PROVE  Splits!Kept(w) \in Seq(Seq(X))
<1>. PICK Y : Y = Seq(X)
  OBVIOUS
<1>1. w \in Y
  OBVIOUS
<1>2. <<w>> \in Seq(Y) /\ <<>> \in Seq(Y)
  BY ONLY <1>1
<1>. QED  BY <1>2 DEF Splits!Kept

LEMMA Piece ==
  ASSUME NEW X, NEW s \in Seq(X), NEW i \in Nat, NEW k \in Nat,
         1 <= i, i <= k, k <= Len(s) + 1
  PROVE  /\ SubSeq(s, i, k - 1) \in Seq(X)
         /\ Len(SubSeq(s, i, k - 1)) = k - i
         /\ \A j \in 1 .. k - i : SubSeq(s, i, k - 1)[j] = s[i + j - 1]
<1>. PICK n : n = k - 1
  OBVIOUS
<1>1. n \in Nat /\ \A j \in i .. n : s[j] \in X
  OBVIOUS
<1>2. /\ SubSeq(s, i, n) \in Seq(X)
      /\ Len(SubSeq(s, i, n)) = IF i <= n THEN n - i + 1 ELSE 0
      /\ \A j \in 1 .. n - i + 1 : SubSeq(s, i, n)[j] = s[i + j - 1]
  BY <1>1, SubSeqProperties
<1>. QED  BY <1>1, <1>2

LEMMA TrimmedIs ==
  ASSUME NEW X, NEW s \in Seq(X)
  PROVE  Splits!Trimmed(s) \in Seq(X)
<1>. DEFINE solid == {i \in 1 .. Len(s) : s[i] # Splits!Space}
            last == CHOOSE i \in solid : \A j \in solid : j <= i
<1>1. CASE solid = {}
  BY <1>1 DEF Splits!Trimmed
<1>2. CASE solid # {}
  <2>1. solid \subseteq Nat /\ solid \subseteq 1 .. Len(s)
    OBVIOUS
  <2>2. Splits!Least(solid) \in solid
    BY <1>2, <2>1, LeastIs
  <2>3. last \in solid
    <3>. DEFINE T == {Len(s) - i : i \in solid}
    <3>1. T \subseteq Nat /\ T # {}
      BY <1>2, <2>1
    <3>2. PICK t \in T : \A u \in T : t <= u
      BY <3>1, Smallest
    <3>3. PICK i \in solid : t = Len(s) - i
      BY <3>2
    <3>4. ASSUME NEW j \in solid PROVE j <= i
      <4>1. Len(s) - j \in T
        OBVIOUS
      <4>2. Len(s) - i <= Len(s) - j
        BY <3>2, <3>3, <4>1
      <4>. QED  BY <2>1, <4>2
    <3>5. \E k \in solid : \A j \in solid : j <= k
      BY <3>4
    <3>. HIDE DEF solid
    <3>. QED  BY <3>5, Zenon
  <2>. PICK x : x = Splits!Least(solid)
    OBVIOUS
  <2>. PICK y : y = last
    OBVIOUS
  <2>4. Splits!Trimmed(s) = SubSeq(s, x, y)
    BY <1>2 DEF Splits!Trimmed
  <2>5. x \in 1 .. Len(s) /\ y \in 1 .. Len(s)
    BY <2>1, <2>2, <2>3
  <2>6. SubSeq(s, x, y) \in Seq(X)
    <3>1. x \in Nat /\ y \in Nat /\ Len(s) \in Nat
      BY <2>5
    <3>2. ASSUME NEW j \in x .. y PROVE s[j] \in X
      <4>1. j \in 1 .. Len(s)
        BY ONLY <2>5, <3>1, j \in x .. y
      <4>. QED  BY <4>1
    <3>. QED  BY ONLY <3>1, <3>2, SubSeqProperties
  <2>. QED  BY <2>4, <2>6
<1>. QED  BY <1>1, <1>2

Letters == Char \union Delims \union Splits!Quotes \union {Splits!Backslash}

Texts == Seq(Letters)

(* What comes of the text s from each place on, when patterns are cut out  *)
(* (c), and when it is split at separators.                                *)
Cut(c, s, p) ==
  /\ c[1] = Splits!CutOut(s, p)
  /\ \A i \in 1 .. Len(s) + 1 :
       LET F == Splits!Found(s, p, i)
           k == Splits!Least(F)
       IN /\ c[i] \in Seq(Texts)
          /\ F = {} => c[i] = Splits!Kept(SubSeq(s, i, Len(s)))
          /\ F # {} => /\ k \in F /\ k + Len(p) \in 1 .. Len(s) + 1
                       /\ c[i] = Splits!Kept(SubSeq(s, i, k - 1)) \o c[k + Len(p)]

Separated(c, s) ==
  /\ c[1] = Splits!Pieces(s)
  /\ \A i \in 1 .. Len(s) + 1 :
       LET F == Splits!Separators(s, i)
           k == Splits!Least(F)
       IN /\ c[i] \in Seq(Texts)
          /\ F = {} => c[i] = Splits!Kept(SubSeq(s, i, Len(s)))
          /\ F # {} =>
               /\ k \in F /\ k + 1 \in 1 .. Len(s) + 1
               /\ c[i] = Splits!Kept(Splits!Trimmed(SubSeq(s, i, k - 1))) \o c[k + 1]

LEMMA CutExists ==
  ASSUME NEW s \in Texts, NEW p \in Texts, p # <<>>
  PROVE  \E c : Cut(c, s, p)
<1>. PICK n : n = Len(s) + 1
  OBVIOUS
<1>. DEFINE F(i) == Splits!Found(s, p, i)
            D == {i \in 1 .. n : F(i) = {}}
            E == [i \in 1 .. n |-> Splits!Kept(SubSeq(s, i, Len(s)))]
            H == [i \in 1 .. n |-> IF i \in D THEN <<>>
                                   ELSE Splits!Kept(SubSeq(s, i, Splits!Least(F(i)) - 1))]
            J == [i \in 1 .. n |-> Splits!Least(F(i)) + Len(p)]
            From(c) == c = [i \in 1 .. n |->
                  IF F(i) = {} THEN Splits!Kept(SubSeq(s, i, Len(s)))
                  ELSE Splits!Kept(SubSeq(s, i, Splits!Least(F(i)) - 1))
                       \o c[Splits!Least(F(i)) + Len(p)]]
            C == CHOOSE c : From(c)
<1>1. n \in Nat /\ Len(s) \in Nat /\ Len(p) \in Nat /\ Len(p) # 0
  BY DEF Texts
<1>2. ASSUME NEW i \in 1 .. n, F(i) # {}
      PROVE  LET k == Splits!Least(F(i))
             IN  k \in F(i) /\ k \in i .. n /\ k + Len(p) \in i + 1 .. n
  <2>1. F(i) \subseteq i .. Len(s) - Len(p) + 1
    BY DEF Splits!Found
  <2>2. i .. Len(s) - Len(p) + 1 \subseteq Nat
    BY <1>1
  <2>. PICK k : k = Splits!Least(F(i))
    OBVIOUS
  <2>3. k \in F(i)
    <3>. HIDE DEF F
    <3>. QED  BY <1>2, <2>1, <2>2, LeastIs
  <2>4. k \in i .. Len(s) - Len(p) + 1
    BY <2>1, <2>3
  <2>5. k \in i .. n /\ k + Len(p) \in i + 1 .. n
    BY <1>1, <2>4
  <2>. QED  BY <2>3, <2>5
<1>. HIDE DEF F
<1>3. ASSUME NEW i \in 1 .. n
      PROVE  /\ E[i] \in Seq(Texts) /\ H[i] \in Seq(Texts)
             /\ i \notin D => J[i] \in i + 1 .. n
  <2>1. E[i] \in Seq(Texts)
    <3>1. SubSeq(s, i, n - 1) \in Texts /\ n - 1 = Len(s)
      BY <1>1, Piece DEF Texts
    <3>2. Splits!Kept(SubSeq(s, i, Len(s))) \in Seq(Texts)
      BY <3>1, KeptWord DEF Texts
    <3>. QED  BY <3>2
  <2>2. H[i] \in Seq(Texts)
    <3>1. CASE i \in D
      BY <3>1
    <3>2. CASE i \notin D
      <4>. PICK k : k = Splits!Least(F(i))
        OBVIOUS
      <4>1. k \in i .. n
        BY <1>2, <3>2
      <4>2. SubSeq(s, i, k - 1) \in Texts
        BY <1>1, <4>1, Piece DEF Texts
      <4>3. Splits!Kept(SubSeq(s, i, k - 1)) \in Seq(Texts)
        BY <4>2, KeptWord DEF Texts
      <4>. QED  BY <3>2, <4>3
    <3>. QED  BY <3>1, <3>2
  <2>3. i \notin D => J[i] \in i + 1 .. n
    BY <1>2
  <2>. QED  BY <2>1, <2>2, <2>3
<1>4. ASSUME NEW c PROVE From(c) <=> Rest(c, 1, n, D, E, H, J)
  <2>1. \A i \in 1 .. n :
          (IF F(i) = {} THEN Splits!Kept(SubSeq(s, i, Len(s)))
           ELSE Splits!Kept(SubSeq(s, i, Splits!Least(F(i)) - 1))
                \o c[Splits!Least(F(i)) + Len(p)])
          = IF i \in D THEN E[i] ELSE H[i] \o c[J[i]]
    OBVIOUS
  <2>. HIDE DEF D, E, H, J
  <2>. QED  BY <2>1, Zenon DEF Rest
<1>5. \E c : From(c)
  <2>1. \E c : Rest(c, 1, n, D, E, H, J)
    <3>. HIDE DEF D, E, H, J
    <3>. QED  BY <1>1, <1>3, RestExists
  <2>. QED  BY <1>4, <2>1
<1>6. From(C)
  <2>. HIDE DEF From
  <2>. QED  BY <1>5, Zenon
<1>7. C[1] = Splits!CutOut(s, p)
  BY DEF Splits!CutOut, F
<1>. HIDE DEF C
<1>8. \A i \in 1 .. n : C[i] \in Seq(Texts)
  <2>1. Rest(C, 1, n, D, E, H, J)
    BY <1>4, <1>6
  <2>. HIDE DEF D, E, H, J
  <2>. QED  BY <1>1, <1>3, <2>1, RestIsSeq
<1>9. ASSUME NEW i \in 1 .. n
      PROVE  /\ F(i) = {} => C[i] = Splits!Kept(SubSeq(s, i, Len(s)))
             /\ F(i) # {} => C[i] = Splits!Kept(SubSeq(s, i, Splits!Least(F(i)) - 1))
                                    \o C[Splits!Least(F(i)) + Len(p)]
  BY <1>6
<1>10. ASSUME NEW i \in 1 .. n, F(i) # {}
       PROVE  Splits!Least(F(i)) \in F(i) /\ Splits!Least(F(i)) + Len(p) \in 1 .. n
  BY <1>1, <1>2, <1>10
<1>. QED  BY <1>7, <1>8, <1>9, <1>10 DEF Cut, F

LEMMA SeparatedExists ==
  ASSUME NEW s \in Texts
  PROVE  \E c : Separated(c, s)
<1>. PICK n : n = Len(s) + 1
  OBVIOUS
<1>. DEFINE F(i) == Splits!Separators(s, i)
            D == {i \in 1 .. n : F(i) = {}}
            E == [i \in 1 .. n |-> Splits!Kept(SubSeq(s, i, Len(s)))]
            H == [i \in 1 .. n |-> IF i \in D THEN <<>>
                       ELSE Splits!Kept(Splits!Trimmed(
                              SubSeq(s, i, Splits!Least(F(i)) - 1)))]
            J == [i \in 1 .. n |-> Splits!Least(F(i)) + 1]
            From(c) == c = [i \in 1 .. n |->
                  IF F(i) = {} THEN Splits!Kept(SubSeq(s, i, Len(s)))
                  ELSE Splits!Kept(Splits!Trimmed(SubSeq(s, i, Splits!Least(F(i)) - 1)))
                       \o c[Splits!Least(F(i)) + 1]]
            C == CHOOSE c : From(c)
<1>1. n \in Nat /\ Len(s) \in Nat
  BY DEF Texts
<1>2. ASSUME NEW i \in 1 .. n, F(i) # {}
      PROVE  LET k == Splits!Least(F(i))
             IN  k \in F(i) /\ k \in i .. n /\ k + 1 \in i + 1 .. n
  <2>1. F(i) \subseteq i .. Len(s)
    BY DEF Splits!Separators
  <2>2. i .. Len(s) \subseteq Nat
    BY <1>1
  <2>. PICK k : k = Splits!Least(F(i))
    OBVIOUS
  <2>3. k \in F(i)
    <3>. HIDE DEF F
    <3>. QED  BY <1>2, <2>1, <2>2, LeastIs
  <2>4. k \in i .. Len(s)
    BY <2>1, <2>3
  <2>5. k \in i .. n /\ k + 1 \in i + 1 .. n
    BY <1>1, <2>4
  <2>. QED  BY <2>3, <2>5
<1>. HIDE DEF F
<1>3. ASSUME NEW i \in 1 .. n
      PROVE  /\ E[i] \in Seq(Texts) /\ H[i] \in Seq(Texts)
             /\ i \notin D => J[i] \in i + 1 .. n
  <2>1. E[i] \in Seq(Texts)
    <3>1. SubSeq(s, i, n - 1) \in Texts /\ n - 1 = Len(s)
      BY <1>1, Piece DEF Texts
    <3>2. Splits!Kept(SubSeq(s, i, Len(s))) \in Seq(Texts)
      BY <3>1, KeptWord DEF Texts
    <3>. QED  BY <3>2
  <2>2. H[i] \in Seq(Texts)
    <3>1. CASE i \in D
      BY <3>1
    <3>2. CASE i \notin D
      <4>. PICK k : k = Splits!Least(F(i))
        OBVIOUS
      <4>1. k \in i .. n
        BY <1>2, <3>2
      <4>2. SubSeq(s, i, k - 1) \in Texts
        BY <1>1, <4>1, Piece DEF Texts
      <4>3. Splits!Kept(Splits!Trimmed(SubSeq(s, i, k - 1))) \in Seq(Texts)
        BY <4>2, TrimmedIs, KeptWord DEF Texts
      <4>. QED  BY <3>2, <4>3
    <3>. QED  BY <3>1, <3>2
  <2>3. i \notin D => J[i] \in i + 1 .. n
    BY <1>2
  <2>. QED  BY <2>1, <2>2, <2>3
<1>4. ASSUME NEW c PROVE From(c) <=> Rest(c, 1, n, D, E, H, J)
  <2>1. \A i \in 1 .. n :
          (IF F(i) = {} THEN Splits!Kept(SubSeq(s, i, Len(s)))
           ELSE Splits!Kept(Splits!Trimmed(SubSeq(s, i, Splits!Least(F(i)) - 1)))
                \o c[Splits!Least(F(i)) + 1])
          = IF i \in D THEN E[i] ELSE H[i] \o c[J[i]]
    OBVIOUS
  <2>. HIDE DEF D, E, H, J
  <2>. QED  BY <2>1, Zenon DEF Rest
<1>5. \E c : From(c)
  <2>1. \E c : Rest(c, 1, n, D, E, H, J)
    <3>. HIDE DEF D, E, H, J
    <3>. QED  BY <1>1, <1>3, RestExists
  <2>. QED  BY <1>4, <2>1
<1>6. From(C)
  <2>. HIDE DEF From
  <2>. QED  BY <1>5, Zenon
<1>7. C[1] = Splits!Pieces(s)
  BY DEF Splits!Pieces, F
<1>. HIDE DEF C
<1>8. \A i \in 1 .. n : C[i] \in Seq(Texts)
  <2>1. Rest(C, 1, n, D, E, H, J)
    BY <1>4, <1>6
  <2>. HIDE DEF D, E, H, J
  <2>. QED  BY <1>1, <1>3, <2>1, RestIsSeq
<1>9. ASSUME NEW i \in 1 .. n
      PROVE  /\ F(i) = {} => C[i] = Splits!Kept(SubSeq(s, i, Len(s)))
             /\ F(i) # {} =>
                  C[i] = Splits!Kept(Splits!Trimmed(SubSeq(s, i, Splits!Least(F(i)) - 1)))
                         \o C[Splits!Least(F(i)) + 1]
  BY <1>6
<1>10. ASSUME NEW i \in 1 .. n, F(i) # {}
       PROVE  Splits!Least(F(i)) \in F(i) /\ Splits!Least(F(i)) + 1 \in 1 .. n
  BY <1>1, <1>2, <1>10
<1>. QED  BY <1>7, <1>8, <1>9, <1>10 DEF Separated, F

LEMMA SameText ==
  ASSUME NEW X, NEW u \in Seq(X), NEW v \in Seq(X), NEW n, Len(u) = n, Len(v) = n,
         \A j \in 1 .. n : u[j] = v[j]
  PROVE  u = v
OBVIOUS

LEMMA Added ==
  ASSUME NEW X, NEW s \in Seq(X), NEW t \in Seq(X), NEW m, m = Len(s), NEW l, l = Len(t)
  PROVE  /\ m \in Nat /\ l \in Nat /\ s \o t \in Seq(X) /\ Len(s \o t) = m + l
         /\ \A j \in 1 .. m : (s \o t)[j] = s[j]
         /\ \A j \in 1 .. l : (s \o t)[m + j] = t[j]
<1>1. /\ s \o t \in Seq(X) /\ Len(s \o t) = Len(s) + Len(t)
      /\ \A p \in 1 .. Len(s) + Len(t) :
           (s \o t)[p] = IF p <= Len(s) THEN s[p] ELSE t[p - Len(s)]
  OBVIOUS
<1>2. m \in Nat /\ l \in Nat
  OBVIOUS
<1>3. ASSUME NEW j \in 1 .. m PROVE (s \o t)[j] = s[j]
  <2>1. j \in 1 .. m + l /\ j <= m
    BY ONLY <1>2, j \in 1 .. m
  <2>. QED  BY <1>1, <2>1
<1>4. ASSUME NEW j \in 1 .. l PROVE (s \o t)[m + j] = t[j]
  <2>1. m + j \in 1 .. m + l /\ ~ (m + j <= m) /\ m + j - m = j
    BY ONLY <1>2, j \in 1 .. l
  <2>. QED  BY <1>1, <2>1
<1>. QED  BY <1>1, <1>2, <1>3, <1>4

(* The part of a text that lies before what was added to it.               *)
LEMMA PieceBefore ==
  ASSUME NEW s \in Texts, NEW p \in Texts, NEW i \in Nat, NEW k \in Nat,
         1 <= i, i <= k, k <= Len(s) + 1
  PROVE  SubSeq(s \o p, i, k - 1) = SubSeq(s, i, k - 1)
<1>. PICK t : t = s \o p
  OBVIOUS
<1>. PICK u : u = SubSeq(t, i, k - 1)
  OBVIOUS
<1>. PICK v : v = SubSeq(s, i, k - 1)
  OBVIOUS
<1>1. /\ t \in Texts /\ Len(t) = Len(s) + Len(p) /\ Len(s) \in Nat /\ Len(p) \in Nat
      /\ \A j \in 1 .. Len(s) : t[j] = s[j]
  BY DEF Texts
<1>2. k <= Len(t) + 1
  BY <1>1
<1>3. u \in Texts /\ Len(u) = k - i /\ \A j \in 1 .. k - i : u[j] = t[i + j - 1]
  BY <1>1, <1>2, Piece DEF Texts
<1>4. v \in Texts /\ Len(v) = k - i /\ \A j \in 1 .. k - i : v[j] = s[i + j - 1]
  BY <1>1, Piece DEF Texts
<1>5. ASSUME NEW j \in 1 .. k - i PROVE u[j] = v[j]
  <2>1. i + j - 1 \in 1 .. Len(s)
    BY <1>1
  <2>. QED  BY <1>1, <1>3, <1>4, <2>1
<1>6. u = v
  <2>1. u \in Seq(Letters) /\ v \in Seq(Letters)
    BY <1>3, <1>4 DEF Texts
  <2>. QED  BY ONLY <1>3, <1>4, <1>5, <2>1, SameText
<1>. QED  BY <1>6

LEMMA OccursIs ==
  ASSUME NEW t \in Texts, NEW p \in Texts, NEW i \in Nat, 1 <= i,
         NEW l, l = Len(p), NEW z, z = Len(t) - Len(p) + 1, NEW k
  PROVE  k \in Splits!Found(t, p, i) <=>
           /\ k \in i .. z
           /\ \A q \in 1 .. l : t[k + q - 1] = p[q]
<1>1. Len(t) \in Nat /\ Len(p) \in Nat
  BY DEF Texts
<1>. SUFFICES ASSUME k \in i .. Len(t) - Len(p) + 1
     PROVE  SubSeq(t, k, k + Len(p) - 1) = p <=>
              \A q \in 1 .. Len(p) : t[k + q - 1] = p[q]
  BY DEF Splits!Found
<1>. PICK n : n = k + Len(p)
  OBVIOUS
<1>. PICK u : u = SubSeq(t, k, n - 1)
  OBVIOUS
<1>2. k \in Nat /\ n \in Nat /\ 1 <= k /\ k <= n /\ n <= Len(t) + 1 /\ n - k = Len(p)
  BY <1>1
<1>3. u \in Texts /\ Len(u) = Len(p) /\ \A q \in 1 .. Len(p) : u[q] = t[k + q - 1]
  <2>1. /\ SubSeq(t, k, n - 1) \in Texts /\ Len(SubSeq(t, k, n - 1)) = n - k
        /\ \A q \in 1 .. n - k : SubSeq(t, k, n - 1)[q] = t[k + q - 1]
    BY ONLY <1>2, Piece, t \in Texts DEF Texts
  <2>. QED  BY <1>2, <2>1
<1>4. u = p <=> \A q \in 1 .. Len(p) : u[q] = p[q]
  <2>1. u \in Seq(Letters) /\ p \in Seq(Letters)
    BY <1>3 DEF Texts
  <2>2. (\A q \in 1 .. Len(p) : u[q] = p[q]) => u = p
    BY ONLY <1>3, <2>1, SameText
  <2>. QED  BY <2>2
<1>. QED  BY <1>3, <1>4

(* What lies before the place e of a text.                                 *)
Prefix(s, e) == SubSeq(s, 1, e - 1)

LEMMA PrefixIs ==
  ASSUME NEW s \in Texts, NEW p \in Texts, NEW e \in 1 .. Len(s) + 1
  PROVE  /\ Prefix(s, e) \in Texts /\ Len(Prefix(s, e)) = e - 1 /\ e - 1 \in Nat
         /\ \A j \in 1 .. e - 1 : Prefix(s, e)[j] = (s \o p)[j]
<1>1. /\ s \in Seq(Letters) /\ p \in Seq(Letters) /\ Len(s) \in Nat
      /\ \A j \in 1 .. Len(s) : (s \o p)[j] = s[j]
  BY DEF Texts
<1>2. e \in Nat /\ 1 \in Nat /\ 1 <= e /\ 1 <= 1 /\ e <= Len(s) + 1 /\ e - 1 \in Nat
  BY <1>1
<1>3. /\ SubSeq(s, 1, e - 1) \in Seq(Letters) /\ Len(SubSeq(s, 1, e - 1)) = e - 1
      /\ \A j \in 1 .. e - 1 : SubSeq(s, 1, e - 1)[j] = s[1 + j - 1]
  BY ONLY <1>1, <1>2, Piece
<1>4. ASSUME NEW j \in 1 .. e - 1 PROVE Prefix(s, e)[j] = (s \o p)[j]
  <2>1. 1 + j - 1 = j /\ j \in 1 .. Len(s)
    BY <1>1, <1>2
  <2>. QED  BY <1>1, <1>3, <2>1 DEF Prefix
<1>. QED  BY <1>2, <1>3, <1>4 DEF Prefix, Texts

(* Two texts that agree up to a place have the same pieces before it.      *)
LEMMA SamePiece ==
  ASSUME NEW s \in Texts, NEW t \in Texts, NEW i \in Nat, NEW k \in Nat,
         1 <= i, i <= k, k <= Len(s) + 1, k <= Len(t) + 1,
         \A j \in 1 .. k - 1 : s[j] = t[j]
  PROVE  SubSeq(s, i, k - 1) = SubSeq(t, i, k - 1)
<1>. PICK u : u = SubSeq(t, i, k - 1)
  OBVIOUS
<1>. PICK v : v = SubSeq(s, i, k - 1)
  OBVIOUS
<1>1. u \in Texts /\ Len(u) = k - i /\ \A j \in 1 .. k - i : u[j] = t[i + j - 1]
  BY Piece DEF Texts
<1>2. v \in Texts /\ Len(v) = k - i /\ \A j \in 1 .. k - i : v[j] = s[i + j - 1]
  BY Piece DEF Texts
<1>3. ASSUME NEW j \in 1 .. k - i PROVE u[j] = v[j]
  <2>1. i + j - 1 \in 1 .. k - 1
    OBVIOUS
  <2>. QED  BY <1>1, <1>2, <2>1
<1>4. u = v
  <2>1. u \in Seq(Letters) /\ v \in Seq(Letters)
    BY <1>1, <1>2 DEF Texts
  <2>. QED  BY ONLY <1>1, <1>2, <1>3, <2>1, SameText
<1>. QED  BY <1>4

(* In a text with the pattern added it is found, at the latest where it    *)
(* was added.                                                              *)
LEMMA FoundBehind ==
  ASSUME NEW s \in Texts, NEW p \in Texts, NEW i \in 1 .. Len(s) + 1
  PROVE  LET F == Splits!Found(s \o p, p, i) IN
         /\ F \subseteq i .. Len(s) + 1 /\ F # {}
         /\ F = {k \in i .. Len(s) + 1 :
                   \A q \in 1 .. Len(p) : (s \o p)[k + q - 1] = p[q]}
<1>. PICK F : F = Splits!Found(s \o p, p, i)
  OBVIOUS
<1>. PICK t : t = s \o p
  OBVIOUS
<1>. PICK m : m = Len(s)
  OBVIOUS
<1>. PICK l : l = Len(p)
  OBVIOUS
<1>1. /\ m \in Nat /\ l \in Nat /\ t \in Texts /\ Len(t) = m + l
      /\ i \in Nat /\ 1 <= i /\ i <= m + 1
      /\ \A j \in 1 .. l : t[m + j] = p[j]
  <2>1. s \in Seq(Letters) /\ p \in Seq(Letters)
    BY DEF Texts
  <2>2. /\ m \in Nat /\ l \in Nat /\ t \in Seq(Letters) /\ Len(t) = m + l
        /\ \A j \in 1 .. l : t[m + j] = p[j]
    BY ONLY <2>1, t = s \o p, m = Len(s), l = Len(p), Added
  <2>3. i \in Nat /\ 1 <= i /\ i <= m + 1
    BY <2>2
  <2>. QED  BY <2>2, <2>3 DEF Texts
<1>2. \A k : k \in F <=> /\ k \in i .. m + 1
                         /\ \A q \in 1 .. l : t[k + q - 1] = p[q]
  <2>1. m + 1 = Len(t) - Len(p) + 1
    BY <1>1
  <2>2. t \in Texts /\ p \in Texts /\ i \in Nat /\ 1 <= i /\ l = Len(p)
    BY <1>1
  <2>3. ASSUME NEW k
        PROVE  k \in Splits!Found(t, p, i) <=>
                 k \in i .. m + 1 /\ \A q \in 1 .. l : t[k + q - 1] = p[q]
    BY ONLY <2>1, <2>2, OccursIs
  <2>. QED  BY <2>3
<1>3. m + 1 \in F
  <2>1. \A q \in 1 .. l : m + 1 + q - 1 = m + q
    BY <1>1
  <2>2. m + 1 \in i .. m + 1
    BY <1>1
  <2>3. \A q \in 1 .. l : t[m + 1 + q - 1] = p[q]
    BY <1>1, <2>1
  <2>. QED  BY ONLY <1>2, <2>2, <2>3, Zenon
<1>. QED  BY <1>2, <1>3

(* What is found in the beginning of such a text is what is found in the   *)
(* text and lies there.                                                    *)
LEMMA FoundInPrefix ==
  ASSUME NEW s \in Texts, NEW p \in Texts, NEW e \in 1 .. Len(s) + 1, NEW i \in 1 .. e,
         NEW F, F = Splits!Found(s \o p, p, i),
         NEW G, G = Splits!Found(Prefix(s, e), p, i)
  PROVE  \A k : k \in G <=> k \in F /\ k + Len(p) <= e
<1>. PICK t : t = s \o p
  OBVIOUS
<1>. PICK u : u = Prefix(s, e)
  OBVIOUS
<1>. PICK l : l = Len(p)
  OBVIOUS
<1>. PICK m : m = Len(s)
  OBVIOUS
<1>1. /\ u \in Texts /\ Len(u) = e - 1 /\ t \in Texts /\ Len(t) = m + l
      /\ m \in Nat /\ l \in Nat /\ e \in Nat /\ i \in Nat /\ 1 <= i /\ i <= e /\ e <= m + 1
      /\ \A j \in 1 .. e - 1 : u[j] = t[j]
  <2>1. /\ u \in Texts /\ Len(u) = e - 1 /\ \A j \in 1 .. e - 1 : u[j] = t[j]
    BY PrefixIs
  <2>2. t \in Texts /\ Len(t) = m + l /\ m \in Nat /\ l \in Nat
    BY DEF Texts
  <2>. QED  BY <2>1, <2>2
<1>. TAKE k
<1>2. k \in F <=> k \in i .. m + 1 /\ \A q \in 1 .. l : t[k + q - 1] = p[q]
  <2>1. i \in 1 .. Len(s) + 1
    BY <1>1
  <2>2. F = {j \in i .. Len(s) + 1 :
               \A q \in 1 .. Len(p) : (s \o p)[j + q - 1] = p[q]}
    BY ONLY <2>1, s \in Texts, p \in Texts, F = Splits!Found(s \o p, p, i), FoundBehind
  <2>3. k \in F <=>
          /\ k \in i .. Len(s) + 1
          /\ \A q \in 1 .. Len(p) : (s \o p)[k + q - 1] = p[q]
    BY ONLY <2>2, Zenon
  <2>. QED  BY ONLY <2>3, t = s \o p, m = Len(s), l = Len(p)
<1>3. k \in G <=> k \in i .. e - l /\ \A q \in 1 .. l : u[k + q - 1] = p[q]
  <2>1. /\ e - l = Len(u) - Len(p) + 1 /\ u \in Texts /\ p \in Texts /\ i \in Nat
        /\ 1 <= i /\ l = Len(p)
    BY <1>1
  <2>2. k \in Splits!Found(u, p, i) <=>
          k \in i .. e - l /\ \A q \in 1 .. l : u[k + q - 1] = p[q]
    BY ONLY <2>1, OccursIs
  <2>. QED  BY <2>2
<1>4. k \in i .. e - l <=> k \in i .. m + 1 /\ k + l <= e
  BY <1>1
<1>5. ASSUME k \in i .. e - l, NEW q \in 1 .. l PROVE u[k + q - 1] = t[k + q - 1]
  <2>1. k + q - 1 \in 1 .. e - 1
    BY <1>1, <1>5
  <2>. QED  BY <1>1, <2>1
<1>. QED  BY <1>2, <1>3, <1>4, <1>5

(* A turn of split.  The beginnings of a text that reach as far as the     *)
(* pattern found go on behind it; the one that ends where the pattern      *)
(* begins is cut out now.                                                  *)
LeadsOn(s, p, r, i) ==
  LET F == Splits!Found(s \o p, p, i)
      k == Splits!Least(F)
      q == r \o Splits!Kept(SubSeq(s \o p, i, k - 1))
  IN /\ k \in F /\ q \in Seq(Texts)
     /\ \A e \in i .. Len(s) + 1 : \A c :
          Cut(c, Prefix(s, e), p) /\ r \o c[i] = c[1] =>
            /\ k + Len(p) <= e => q \o c[k + Len(p)] = c[1]
            /\ k = e => q = c[1]

LEMMA PatternTurn ==
  ASSUME NEW s \in Texts, NEW p \in Texts, p # <<>>, NEW r \in Seq(Texts),
         NEW i \in 1 .. Len(s) + 1
  PROVE  LeadsOn(s, p, r, i)
<1>. PICK t : t = s \o p
  OBVIOUS
<1>. PICK m : m = Len(s)
  OBVIOUS
<1>. PICK l : l = Len(p)
  OBVIOUS
<1>. PICK F : F = Splits!Found(t, p, i)
  OBVIOUS
<1>. PICK k : k = Splits!Least(F)
  OBVIOUS
<1>. PICK h : h = Splits!Kept(SubSeq(t, i, k - 1))
  OBVIOUS
<1>1. /\ m \in Nat /\ l \in Nat /\ l # 0 /\ i \in Nat /\ 1 <= i /\ i <= m + 1
      /\ t \in Texts /\ Len(t) = m + l
  <2>1. p \in Seq(Letters) /\ Len(p) # 0
    BY DEF Texts
  <2>. QED  BY <2>1 DEF Texts
<1>2. k \in F /\ k \in Nat /\ i <= k /\ k <= m + 1 /\ \A j \in F : k <= j
  <2>1. F \subseteq i .. m + 1 /\ F # {}
    BY FoundBehind
  <2>2. F \subseteq Nat
    BY <1>1, <2>1
  <2>3. k \in F /\ \A j \in F : k <= j
    BY <2>1, <2>2, LeastIs
  <2>. QED  BY <1>1, <2>1, <2>3
<1>3. h \in Seq(Texts)
  <2>1. t \in Seq(Letters) /\ k <= Len(t) + 1
    BY <1>1, <1>2 DEF Texts
  <2>2. SubSeq(t, i, k - 1) \in Seq(Letters)
    BY ONLY <1>1, <1>2, <2>1, Piece
  <2>. QED  BY <2>2, KeptWord DEF Texts
<1>4. r \o h \in Seq(Texts)
  BY <1>3
<1>5. ASSUME NEW e \in i .. m + 1, NEW c, Cut(c, Prefix(s, e), p), r \o c[i] = c[1]
      PROVE  /\ k + l <= e => (r \o h) \o c[k + l] = c[1]
             /\ k = e => r \o h = c[1]
  <2>. PICK u : u = Prefix(s, e)
    OBVIOUS
  <2>. PICK G : G = Splits!Found(u, p, i)
    OBVIOUS
  <2>. PICK g : g = Splits!Least(G)
    OBVIOUS
  <2>1. /\ e \in Nat /\ e \in 1 .. m + 1 /\ i \in 1 .. e /\ u \in Texts /\ Len(u) = e - 1
        /\ Len(u) \in Nat /\ \A j \in 1 .. e - 1 : u[j] = t[j]
    <3>1. e \in Nat /\ e \in 1 .. m + 1 /\ i \in 1 .. e
      BY <1>1
    <3>. QED  BY <3>1, PrefixIs
  <2>2. \A j : j \in G <=> j \in F /\ j + l <= e
    BY <2>1, FoundInPrefix
  <2>3. /\ c[i] \in Seq(Texts)
        /\ G = {} => c[i] = Splits!Kept(SubSeq(u, i, e - 1))
        /\ G # {} => /\ c[i] = Splits!Kept(SubSeq(u, i, g - 1)) \o c[g + l]
                     /\ g + l \in 1 .. e
    <3>1. i \in 1 .. Len(u) + 1 /\ Len(u) + 1 = e
      BY <2>1
    <3>. QED  BY <1>5, <2>1, <3>1 DEF Cut
  <2>4. ASSUME k <= e PROVE SubSeq(u, i, k - 1) = SubSeq(t, i, k - 1)
    <3>1. k <= Len(u) + 1 /\ k <= Len(t) + 1 /\ \A j \in 1 .. k - 1 : u[j] = t[j]
      BY <1>1, <1>2, <2>1, <2>4
    <3>. QED  BY ONLY <1>1, <1>2, <2>1, <3>1, SamePiece
  <2>5. ASSUME k + l <= e PROVE (r \o h) \o c[k + l] = c[1]
    <3>1. k \in G /\ k <= e
      BY <1>1, <1>2, <2>1, <2>2, <2>5
    <3>2. g = k
      <4>1. G \subseteq Nat /\ G # {}
        <5>1. F \subseteq i .. m + 1
          BY FoundBehind
        <5>. QED  BY <1>1, <2>2, <3>1, <5>1
      <4>2. g \in G /\ g <= k
        BY <3>1, <4>1, LeastIs
      <4>3. k <= g
        BY <1>2, <2>2, <4>2
      <4>. QED  BY <1>2, <4>1, <4>2, <4>3
    <3>. PICK y : y = c[k + l]
      OBVIOUS
    <3>3. c[i] = h \o y /\ k + l \in 1 .. e
      BY <2>3, <2>4, <3>1, <3>2
    <3>4. y \in Seq(Texts)
      <4>1. k + l \in 1 .. Len(u) + 1
        BY <2>1, <3>3
      <4>. QED  BY <1>5, <4>1 DEF Cut
    <3>5. (r \o h) \o y = r \o (h \o y)
      <4>1. r \in Seq(Texts) /\ h \in Seq(Texts) /\ y \in Seq(Texts)
        BY <1>3, <3>4
      <4>. QED  BY ONLY <4>1, Associative
    <3>. QED  BY <1>5, <3>3, <3>5
  <2>6. ASSUME k = e PROVE r \o h = c[1]
    <3>1. G = {}
      <4>. SUFFICES ASSUME NEW j \in G PROVE FALSE
        OBVIOUS
      <4>1. j \in F /\ j + l <= e /\ k <= j
        BY <1>2, <2>2
      <4>2. j \in Nat
        <5>1. F \subseteq i .. m + 1
          BY FoundBehind
        <5>. QED  BY <1>1, <4>1, <5>1
      <4>. QED  BY <1>1, <1>2, <2>6, <4>1, <4>2
    <3>2. SubSeq(u, i, k - 1) = SubSeq(t, i, k - 1)
      BY <1>2, <2>4, <2>6
    <3>3. c[i] = h
      BY <2>3, <2>6, <3>1, <3>2
    <3>. QED  BY <1>5, <3>3
  <2>. QED  BY <2>5, <2>6
<1>. QED  BY <1>2, <1>4, <1>5 DEF LeadsOn

(* A pattern that is found at k and goes over the end of the text it was   *)
(* added to takes the end of it.                                           *)
LEMMA EndTaken ==
  ASSUME NEW s \in Texts, NEW p \in Texts, p # <<>>, NEW i \in 1 .. Len(s) + 1,
         NEW k \in Splits!Found(s \o p, p, i), k + Len(p) > Len(s) + 1
  PROVE  Len(s) + 1 - k \in Splits!Overlaps(s, p)
<1>. PICK t : t = s \o p
  OBVIOUS
<1>. PICK m : m = Len(s)
  OBVIOUS
<1>. PICK l : l = Len(p)
  OBVIOUS
<1>. PICK n : n = m + 1 - k
  OBVIOUS
<1>. PICK b : b = l - n
  OBVIOUS
<1>1. /\ s \in Seq(Letters) /\ p \in Seq(Letters) /\ t \in Seq(Letters)
      /\ m \in Nat /\ l \in Nat /\ Len(t) = m + l
      /\ \A j \in 1 .. m : t[j] = s[j]
      /\ \A j \in 1 .. l : t[m + j] = p[j]
  <2>1. s \in Seq(Letters) /\ p \in Seq(Letters)
    BY DEF Texts
  <2>. QED  BY ONLY <2>1, t = s \o p, m = Len(s), l = Len(p), Added
<1>2. k \in i .. m + 1 /\ \A q \in 1 .. l : t[k + q - 1] = p[q]
  <2>. PICK F : F = Splits!Found(s \o p, p, i)
    OBVIOUS
  <2>1. F = {j \in i .. Len(s) + 1 :
               \A q \in 1 .. Len(p) : (s \o p)[j + q - 1] = p[q]}
    BY ONLY s \in Texts, p \in Texts, i \in 1 .. Len(s) + 1,
            F = Splits!Found(s \o p, p, i), FoundBehind
  <2>2. k \in F
    OBVIOUS
  <2>3. /\ k \in i .. Len(s) + 1
        /\ \A q \in 1 .. Len(p) : (s \o p)[k + q - 1] = p[q]
    BY ONLY <2>1, <2>2, Zenon
  <2>. QED  BY ONLY <2>3, t = s \o p, m = Len(s), l = Len(p)
<1>3. /\ k \in Nat /\ 1 <= k /\ k <= m + 1 /\ n \in Nat /\ n \in 0 .. m /\ k = m - n + 1
      /\ b \in Nat /\ 1 <= b /\ b <= l /\ n = l - b /\ n <= l
  BY <1>1, <1>2
<1>4. SubSeq(s, m - n + 1, m) = SubSeq(p, 1, n)
  <2>. PICK x : x = SubSeq(s, k, m)
    OBVIOUS
  <2>. PICK y : y = SubSeq(p, 1, n)
    OBVIOUS
  <2>1. x \in Seq(Letters) /\ Len(x) = n /\ \A j \in 1 .. n : x[j] = s[k + j - 1]
    <3>. PICK c : c = m + 1
      OBVIOUS
    <3>1. c \in Nat /\ k <= c /\ c <= Len(s) + 1 /\ c - 1 = m /\ c - k = n
      BY ONLY <1>1, <1>3, c = m + 1, m = Len(s)
    <3>2. /\ SubSeq(s, k, c - 1) \in Seq(Letters) /\ Len(SubSeq(s, k, c - 1)) = c - k
          /\ \A j \in 1 .. c - k : SubSeq(s, k, c - 1)[j] = s[k + j - 1]
      BY ONLY <1>1, <1>3, <3>1, Piece
    <3>. QED  BY <3>1, <3>2
  <2>2. y \in Seq(Letters) /\ Len(y) = n /\ \A j \in 1 .. n : y[j] = p[j]
    <3>. PICK c : c = n + 1
      OBVIOUS
    <3>1. c \in Nat /\ 1 \in Nat /\ 1 <= 1 /\ 1 <= c /\ c <= Len(p) + 1 /\ c - 1 = n
      BY ONLY <1>1, <1>3, c = n + 1, l = Len(p)
    <3>2. /\ SubSeq(p, 1, c - 1) \in Seq(Letters) /\ Len(SubSeq(p, 1, c - 1)) = c - 1
          /\ \A j \in 1 .. c - 1 : SubSeq(p, 1, c - 1)[j] = p[1 + j - 1]
      BY ONLY <1>1, <3>1, Piece
    <3>3. \A j \in 1 .. n : 1 + j - 1 = j
      BY <1>3
    <3>. QED  BY <3>1, <3>2, <3>3
  <2>3. ASSUME NEW j \in 1 .. n PROVE x[j] = y[j]
    <3>1. j \in 1 .. l /\ k + j - 1 \in 1 .. m
      BY <1>1, <1>3
    <3>2. t[k + j - 1] = p[j] /\ t[k + j - 1] = s[k + j - 1]
      BY <1>1, <1>2, <3>1
    <3>. QED  BY <2>1, <2>2, <3>2
  <2>4. x = y
    BY ONLY <2>1, <2>2, <2>3, SameText
  <2>. QED  BY <1>3, <2>4
<1>5. ASSUME n # 0 PROVE b \in Splits!Borders(p)
  <2>1. b \in 1 .. l - 1
    BY <1>1, <1>3, <1>5
  <2>. PICK a : a = l - b + 1
    OBVIOUS
  <2>2. a \in Nat /\ 1 <= a /\ a = n + 1
    BY <1>1, <1>3
  <2>. PICK x : x = SubSeq(p, 1, b)
    OBVIOUS
  <2>. PICK y : y = SubSeq(p, a, l)
    OBVIOUS
  <2>3. x \in Seq(Letters) /\ Len(x) = b /\ \A j \in 1 .. b : x[j] = p[j]
    <3>. PICK c : c = b + 1
      OBVIOUS
    <3>1. c \in Nat /\ 1 \in Nat /\ 1 <= 1 /\ 1 <= c /\ c <= Len(p) + 1 /\ c - 1 = b
      BY ONLY <1>1, <1>3, c = b + 1, l = Len(p)
    <3>2. /\ SubSeq(p, 1, c - 1) \in Seq(Letters) /\ Len(SubSeq(p, 1, c - 1)) = c - 1
          /\ \A j \in 1 .. c - 1 : SubSeq(p, 1, c - 1)[j] = p[1 + j - 1]
      BY ONLY <1>1, <3>1, Piece
    <3>3. \A j \in 1 .. b : 1 + j - 1 = j
      BY <1>3
    <3>. QED  BY ONLY x = SubSeq(p, 1, b), <3>1, <3>2, <3>3
  <2>4. y \in Seq(Letters) /\ Len(y) = b /\ \A j \in 1 .. b : y[j] = p[a + j - 1]
    <3>. PICK c : c = l + 1
      OBVIOUS
    <3>1. c \in Nat /\ a <= c /\ c <= Len(p) + 1 /\ c - 1 = l /\ c - a = b
      BY ONLY <1>1, <1>3, <2>2, c = l + 1, l = Len(p)
    <3>2. /\ SubSeq(p, a, c - 1) \in Seq(Letters) /\ Len(SubSeq(p, a, c - 1)) = c - a
          /\ \A j \in 1 .. c - a : SubSeq(p, a, c - 1)[j] = p[a + j - 1]
      <4>1. p \in Seq(Letters) /\ a \in Nat /\ 1 <= a
        BY <1>1, <2>2
      <4>. QED  BY ONLY <3>1, <4>1, Piece
    <3>. QED  BY ONLY y = SubSeq(p, a, l), <3>1, <3>2
  <2>5. ASSUME NEW j \in 1 .. b PROVE x[j] = y[j]
    <3>. PICK q : q = a + j - 1
      OBVIOUS
    <3>1. q \in 1 .. l /\ k + q - 1 = m + j /\ j \in 1 .. l
      <4>1. m \in Nat /\ l \in Nat /\ n \in Nat
        BY <1>1, <1>3
      <4>2. k = m - n + 1 /\ b = l - n /\ a = n + 1 /\ 1 <= b /\ b <= l
        BY <1>3, <2>2
      <4>. QED  BY ONLY <4>1, <4>2, q = a + j - 1, j \in 1 .. b
    <3>2. t[k + q - 1] = p[q] /\ t[m + j] = p[j]
      BY <1>1, <1>2, <3>1
    <3>. QED  BY <2>3, <2>4, <3>1, <3>2
  <2>6. x = y
    BY ONLY <2>3, <2>4, <2>5, SameText
  <2>. QED  BY <2>1, <2>6 DEF Splits!Borders
<1>6. n \in 0 .. Len(s) /\ (n # 0 => Len(p) - n \in Splits!Borders(p))
  BY <1>3, <1>5
<1>. QED  BY <1>4, <1>6 DEF Splits!Overlaps

(* Split has taken what comes of the beginning of s, however long, and     *)
(* when it has passed the end of s all that comes of one.                  *)
PatternAt(s) ==
  /\ s \in Texts /\ pattern \in Texts /\ text = s \o pattern
  /\ result \in Seq(Texts)
  /\ \/ /\ ~ done /\ pos \in 1 .. Len(s) + 1
        /\ \A e \in pos .. Len(s) + 1 : \A c :
             Cut(c, Prefix(s, e), pattern) => result \o c[pos] = c[1]
     \/ /\ pos \in Nat /\ pos > Len(s) + 1
        /\ \E n \in Splits!Overlaps(s, pattern) :
             result = Splits!CutOut(SubSeq(s, 1, Len(s) - n), pattern)

PatternInv ==
  mode = "pattern" => /\ pattern # <<>> => \E s : PatternAt(s)
                      /\ pattern = <<>> => pos = 1 /\ (done => text = <<>>)

(* So with SplitStringToVec.                                               *)
SeparatorsAt(c) ==
  /\ text \in Texts /\ Separated(c, text) /\ result \in Seq(Texts)
  /\ IF done THEN result = c[1]
     ELSE begin = pos /\ pos \in 1 .. Len(text) + 1 /\ result \o c[pos] = c[1]

SeparatorsInv == mode = "separators" => \E c : SeparatorsAt(c)

(* What is split stays what it is.                                         *)
LEMMA InputStays ==
  ASSUME [Splits!Next]_splitsVars
  PROVE  /\ mode' = mode /\ text' = text /\ pattern' = pattern /\ words' = words
         /\ done' \in {done, TRUE}
BY DEF Splits!Next, splitsVars, Splits!Input, Splits!OpenQuote, Splits!Escaped,
   Splits!Take, Splits!CloseQuote, Splits!Delimiter, Splits!Plain, Splits!EndQuoted,
   Splits!NextPattern, Splits!NoPattern, Splits!EndPattern, Splits!NextSeparator,
   Splits!LastPiece

LEMMA EmptyPatternStep ==
  ASSUME text \in Texts, pattern = <<>>, mode = "pattern", pos = 1, ~ done,
         Splits!NextPattern \/ Splits!NoPattern \/ Splits!EndPattern
  PROVE  pos' = 1 /\ (done' => text = <<>>)
<1>. PICK F : F = Splits!Found(text, <<>>, 1)
  OBVIOUS
<1>. PICK m : m = Len(text)
  OBVIOUS
<1>1. m \in Nat /\ Len(<<>>) = 0
  BY DEF Texts
<1>2. F = 1 .. m + 1
  <2>1. \A k \in 1 .. m + 1 : SubSeq(text, k, k + 0 - 1) = <<>>
    <3>. SUFFICES ASSUME NEW k \in 1 .. m + 1 PROVE SubSeq(text, k, k + 0 - 1) = <<>>
      OBVIOUS
    <3>1. k \in Nat /\ 1 <= k /\ k <= k /\ k <= Len(text) + 1 /\ k + 0 - 1 = k - 1 /\ k - k = 0
      BY <1>1
    <3>2. SubSeq(text, k, k - 1) \in Seq(Letters) /\ Len(SubSeq(text, k, k - 1)) = k - k
      BY <3>1, Piece DEF Texts
    <3>. QED  BY <3>1, <3>2
  <2>2. m - 0 + 1 = m + 1
    BY <1>1
  <2>. QED  BY <1>1, <2>1, <2>2 DEF Splits!Found
<1>3. Splits!Least(F) = 1
  <2>1. F \subseteq Nat /\ 1 \in F
    BY <1>1, <1>2
  <2>2. Splits!Least(F) \in F /\ Splits!Least(F) <= 1
    BY <2>1, LeastIs
  <2>. QED  BY <1>1, <1>2, <2>2
<1>4. CASE Splits!NextPattern
  <2>1. pos' = Splits!Least(F) + Len(<<>>) /\ ~ done'
    BY <1>4 DEF Splits!NextPattern
  <2>. QED  BY <1>1, <1>3, <2>1
<1>5. CASE Splits!NoPattern
  <2>1. F = {}
    BY <1>5 DEF Splits!NoPattern
  <2>. QED  BY <1>1, <1>2, <2>1
<1>6. CASE Splits!EndPattern
  <2>1. 1 > m /\ pos' = pos
    BY <1>6 DEF Splits!EndPattern
  <2>2. m = 0
    BY <1>1, <2>1
  <2>3. text \in Seq(Letters)
    BY DEF Texts
  <2>4. text = <<>>
    BY ONLY <2>2, <2>3, m = Len(text)
  <2>. QED  BY <2>1, <2>4
<1>. QED  BY <1>4, <1>5, <1>6

LEMMA PatternsStep ==
  ASSUME text \in Texts, PatternInv, [Splits!Next]_splitsVars PROVE PatternInv'
<1>. SUFFICES ASSUME mode' = "pattern" PROVE PatternInv'
  BY DEF PatternInv
<1>1. mode' = mode /\ text' = text /\ pattern' = pattern /\ mode = "pattern"
  BY InputStays
<1>2. \/ UNCHANGED splitsVars
      \/ Splits!NextPattern \/ Splits!NoPattern \/ Splits!EndPattern
  <2>1. ~ (Splits!OpenQuote \/ Splits!Escaped \/ Splits!CloseQuote \/ Splits!Delimiter
           \/ Splits!Plain \/ Splits!EndQuoted \/ Splits!NextSeparator \/ Splits!LastPiece)
    BY <1>1 DEF Splits!OpenQuote, Splits!Escaped, Splits!CloseQuote, Splits!Delimiter,
       Splits!Plain, Splits!EndQuoted, Splits!NextSeparator, Splits!LastPiece, Splits!Within
  <2>. QED  BY <2>1 DEF Splits!Next
<1>3. CASE UNCHANGED splitsVars
  BY <1>3 DEF splitsVars, PatternInv, PatternAt
<1>4. CASE pattern = <<>> /\ ~ UNCHANGED splitsVars
  <2>1. ~ done /\ pos = 1
    BY <1>1, <1>2, <1>4 DEF PatternInv, Splits!NextPattern, Splits!NoPattern, Splits!EndPattern
  <2>2. pos' = 1 /\ (done' => text = <<>>)
    BY <1>1, <1>2, <1>4, <2>1, EmptyPatternStep
  <2>. QED  BY <1>1, <1>4, <2>2 DEF PatternInv
<1>5. CASE pattern # <<>> /\ ~ UNCHANGED splitsVars
  <2>1. PICK s : PatternAt(s)
    BY <1>1, <1>5 DEF PatternInv
  <2>2. /\ s \in Texts /\ pattern \in Texts /\ text = s \o pattern /\ result \in Seq(Texts)
        /\ Len(s) \in Nat /\ Len(pattern) \in Nat /\ Len(pattern) # 0
        /\ Len(text) = Len(s) + Len(pattern)
    <3>1. s \in Seq(Letters) /\ pattern \in Seq(Letters) /\ text = s \o pattern
          /\ result \in Seq(Texts)
      BY <2>1 DEF PatternAt, Texts
    <3>. QED  BY <1>5, <3>1 DEF Texts
  <2>. DEFINE ToCome(po, r) == \A e \in po .. Len(s) + 1 : \A c :
                                Cut(c, Prefix(s, e), pattern) => r \o c[po] = c[1]
              AllTaken(r) == \E n \in Splits!Overlaps(s, pattern) :
                             r = Splits!CutOut(SubSeq(s, 1, Len(s) - n), pattern)
  <2>3. \/ ~ done /\ pos \in 1 .. Len(s) + 1 /\ ToCome(pos, result)
        \/ pos \in Nat /\ pos > Len(s) + 1 /\ AllTaken(result)
    BY <2>1 DEF PatternAt
  <2>. SUFFICES /\ result' \in Seq(Texts)
                /\ \/ ~ done' /\ pos' \in 1 .. Len(s) + 1 /\ ToCome(pos', result')
                   \/ pos' \in Nat /\ pos' > Len(s) + 1 /\ AllTaken(result')
    <3>. HIDE DEF ToCome, AllTaken
    <3>. SUFFICES PatternAt(s)'
      BY <1>1, <1>5 DEF PatternInv
    <3>. QED  BY <1>1, <2>2 DEF PatternAt, ToCome, AllTaken
  <2>. HIDE DEF ToCome, AllTaken
  <2>4. CASE Splits!NextPattern
    <3>. PICK F : F = Splits!Found(text, pattern, pos)
      OBVIOUS
    <3>. PICK k : k = Splits!Least(F)
      OBVIOUS
    <3>. PICK l : l = Len(pattern)
      OBVIOUS
    <3>1. /\ ~ done /\ ~ done' /\ pos <= Len(text) /\ pos' = k + l /\ F # {}
          /\ result' = result \o Splits!Kept(SubSeq(text, pos, k - 1))
      BY <2>4 DEF Splits!NextPattern
    <3>2. pos \in 1 .. Len(s) + 1 /\ ToCome(pos, result)
      <4>. SUFFICES ASSUME pos \in Nat, pos > Len(s) + 1 PROVE FALSE
        BY <2>3
      <4>1. pos .. Len(text) - Len(pattern) + 1 = {}
        BY <2>2
      <4>. QED  BY <3>1, <4>1 DEF Splits!Found
    <3>3. LeadsOn(s, pattern, result, pos)
      BY ONLY <1>5, <2>2, <3>2, PatternTurn
    <3>4. /\ k \in F /\ result' \in Seq(Texts)
          /\ \A e \in pos .. Len(s) + 1 : \A c :
               Cut(c, Prefix(s, e), pattern) /\ result \o c[pos] = c[1] =>
                 /\ k + l <= e => result' \o c[k + l] = c[1]
                 /\ k = e => result' = c[1]
      BY <2>2, <3>1, <3>3 DEF LeadsOn
    <3>5. k \in pos .. Len(s) + 1 /\ k \in Nat /\ pos \in Nat /\ 1 <= k
      <4>1. F \subseteq pos .. Len(s) + 1
        BY <1>5, <2>2, <3>2, FoundBehind
      <4>. QED  BY <2>2, <3>2, <3>4, <4>1
    <3>. PICK m : m = Len(s)
      OBVIOUS
    <3>0. m \in Nat /\ l \in Nat /\ l # 0
      BY <2>2
    <3>6. CASE k + l <= m + 1
      <4>1. pos' \in 1 .. Len(s) + 1
        <5>1. k + l \in 1 .. m + 1
          BY ONLY <3>0, <3>5, <3>6
        <5>. QED  BY <3>1, <5>1
      <4>2. ASSUME NEW e \in pos' .. Len(s) + 1, NEW c, Cut(c, Prefix(s, e), pattern)
            PROVE  result' \o c[pos'] = c[1]
        <5>1. e \in pos .. Len(s) + 1 /\ k + l <= e
          <6>1. pos' = k + l /\ e \in k + l .. m + 1
            BY <3>1
          <6>2. pos <= k
            BY <3>5
          <6>3. e \in pos .. m + 1 /\ k + l <= e
            BY ONLY <3>0, <3>5, <6>1, <6>2
          <6>. QED  BY <6>3
        <5>2. result \o c[pos] = c[1]
          BY <3>2, <4>2, <5>1 DEF ToCome
        <5>. QED  BY <3>1, <3>4, <4>2, <5>1, <5>2
      <4>. QED  BY <3>1, <3>4, <4>1, <4>2 DEF ToCome
    <3>7. CASE ~ (k + l <= m + 1)
      <4>. PICK n : n = Len(s) + 1 - k
        OBVIOUS
      <4>1. pos' \in Nat /\ pos' > Len(s) + 1 /\ k - 1 = Len(s) - n /\ k \in 1 .. Len(s) + 1
        <5>1. k <= m + 1
          BY <3>5
        <5>2. k + l \in Nat /\ k + l > m + 1 /\ k - 1 = m - (m + 1 - k) /\ k \in 1 .. m + 1
          BY ONLY <3>0, <3>5, <3>7, <5>1
        <5>. QED  BY <3>1, <5>2
      <4>2. n \in Splits!Overlaps(s, pattern)
        <5>1. k \in Splits!Found(s \o pattern, pattern, pos) /\ k + Len(pattern) > Len(s) + 1
          BY <2>2, <3>1, <3>4, <4>1
        <5>. QED  BY <1>5, <2>2, <3>2, <5>1, EndTaken
      <4>3. Prefix(s, k) \in Texts
        BY <2>2, <4>1, PrefixIs
      <4>4. PICK c : Cut(c, Prefix(s, k), pattern)
        BY <1>5, <2>2, <4>3, CutExists
      <4>5. result \o c[pos] = c[1]
        BY <3>2, <3>5, <4>4 DEF ToCome
      <4>6. result' = c[1]
        BY <3>4, <3>5, <4>4, <4>5
      <4>7. c[1] = Splits!CutOut(SubSeq(s, 1, Len(s) - n), pattern)
        BY <4>1, <4>4 DEF Cut, Prefix
      <4>. QED  BY <3>4, <4>1, <4>2, <4>6, <4>7 DEF AllTaken
    <3>. QED  BY <3>6, <3>7
  <2>5. CASE Splits!NoPattern
    <3>1. /\ ~ done /\ pos <= Len(text) /\ pos' = pos + 1 /\ result' = result
          /\ Splits!Found(text, pattern, pos) = {}
      BY <2>5 DEF Splits!NoPattern
    <3>2. ~ (pos \in 1 .. Len(s) + 1)
      <4>. SUFFICES ASSUME pos \in 1 .. Len(s) + 1 PROVE FALSE
        OBVIOUS
      <4>1. Splits!Found(s \o pattern, pattern, pos) # {}
        BY <1>5, <2>2, FoundBehind
      <4>. QED  BY <2>2, <3>1, <4>1
    <3>. QED  BY <2>2, <2>3, <3>1, <3>2
  <2>6. CASE Splits!EndPattern
    <3>1. done' /\ pos > Len(text) /\ pos' = pos /\ result' = result
      BY <2>6 DEF Splits!EndPattern
    <3>2. ~ (pos \in 1 .. Len(s) + 1)
      BY <2>2, <3>1
    <3>. QED  BY <2>2, <2>3, <3>1, <3>2
  <2>. QED  BY <1>2, <1>5, <2>4, <2>5, <2>6
<1>. QED  BY <1>3, <1>4, <1>5

LEMMA SeparatorTurn ==
  ASSUME NEW s \in Texts, NEW c, Separated(c, s), NEW r \in Seq(Texts),
         NEW i \in 1 .. Len(s) + 1, r \o c[i] = c[1]
  PROVE  LET F == Splits!Separators(s, i)
             k == Splits!Least(F)
             q == r \o Splits!Kept(Splits!Trimmed(SubSeq(s, i, k - 1)))
             e == r \o Splits!Kept(SubSeq(s, i, Len(s)))
         IN /\ F # {} => q \in Seq(Texts) /\ k + 1 \in 1 .. Len(s) + 1
                         /\ q \o c[k + 1] = c[1]
            /\ F = {} => e \in Seq(Texts) /\ e = c[1]
<1>. PICK m : m = Len(s)
  OBVIOUS
<1>. PICK F : F = Splits!Separators(s, i)
  OBVIOUS
<1>. PICK k : k = Splits!Least(F)
  OBVIOUS
<1>1. /\ c[i] \in Seq(Texts)
      /\ F = {} => c[i] = Splits!Kept(SubSeq(s, i, m))
      /\ F # {} => /\ k \in F /\ k + 1 \in 1 .. m + 1
                   /\ c[i] = Splits!Kept(Splits!Trimmed(SubSeq(s, i, k - 1))) \o c[k + 1]
  BY DEF Separated
<1>2. CASE F # {}
  <2>. PICK h : h = Splits!Kept(Splits!Trimmed(SubSeq(s, i, k - 1)))
    OBVIOUS
  <2>. PICK n : n = k + 1
    OBVIOUS
  <2>1. n \in 1 .. m + 1 /\ c[i] = h \o c[n] /\ k \in i .. m
    <3>1. k \in i .. m
      BY <1>1, <1>2 DEF Splits!Separators
    <3>. QED  BY <1>1, <1>2, <3>1
  <2>2. c[n] \in Seq(Texts)
    BY <2>1 DEF Separated
  <2>3. h \in Seq(Texts)
    <3>1. s \in Seq(Letters) /\ i \in Nat /\ k \in Nat /\ 1 <= i /\ i <= k /\ k <= Len(s) + 1
      BY <2>1 DEF Texts
    <3>2. SubSeq(s, i, k - 1) \in Seq(Letters)
      BY <3>1, Piece
    <3>3. h \in Seq(Seq(Letters))
      BY <3>2, TrimmedIs, KeptWord
    <3>. QED  BY <3>3 DEF Texts
  <2>4. (r \o h) \o c[n] = r \o (h \o c[n]) /\ r \o h \in Seq(Texts)
    <3>. PICK y : y = c[n]
      OBVIOUS
    <3>1. y \in Seq(Texts)
      BY <2>2
    <3>2. (r \o h) \o y = r \o (h \o y) /\ r \o h \in Seq(Texts)
      BY ONLY r \in Seq(Texts), <2>3, <3>1, Associative
    <3>. QED  BY <3>2
  <2>. QED  BY <1>2, <2>1, <2>4
<1>3. CASE F = {}
  <2>1. c[i] = Splits!Kept(SubSeq(s, i, m))
    BY <1>1, <1>3
  <2>2. r \o c[i] \in Seq(Texts)
    <3>. PICK y : y = c[i]
      OBVIOUS
    <3>1. y \in Seq(Texts)
      BY <1>1
    <3>2. r \o y \in Seq(Texts)
      BY ONLY r \in Seq(Texts), <3>1
    <3>. QED  BY <3>2
  <2>. QED  BY <1>3, <2>1, <2>2
<1>. QED  BY <1>2, <1>3

LEMMA SeparatorsStep ==
  ASSUME SeparatorsInv, [Splits!Next]_splitsVars PROVE SeparatorsInv'
<1>. SUFFICES ASSUME mode' = "separators"
     PROVE  \E c : SeparatorsAt(c)'
  BY DEF SeparatorsInv
<1>1. mode' = mode /\ text' = text
  BY InputStays
<1>2. mode = "separators"
  BY <1>1
<1>3. PICK c : SeparatorsAt(c)
  BY <1>2, Zenon DEF SeparatorsInv
<1>4. text \in Texts /\ Separated(c, text) /\ result \in Seq(Texts)
  BY <1>3 DEF SeparatorsAt
<1>5. IF done THEN result = c[1]
       ELSE begin = pos /\ pos \in 1 .. Len(text) + 1 /\ result \o c[pos] = c[1]
  BY <1>3 DEF SeparatorsAt
<1>. DEFINE Goal ==
        /\ result' \in Seq(Texts)
        /\ IF done' THEN result' = c[1]
           ELSE begin' = pos' /\ pos' \in 1 .. Len(text) + 1 /\ result' \o c[pos'] = c[1]
<1>6. Goal => SeparatorsAt(c)'
  BY ONLY <1>1, <1>4 DEF SeparatorsAt
<1>. SUFFICES Goal
  BY <1>6
<1>7. ASSUME ~ done
      PROVE  LET F == Splits!Separators(text, pos)
                 k == Splits!Least(F)
                 q == result \o Splits!Kept(Splits!Trimmed(SubSeq(text, begin, k - 1)))
                 e == result \o Splits!Kept(SubSeq(text, begin, Len(text)))
             IN /\ F # {} => q \in Seq(Texts) /\ k + 1 \in 1 .. Len(text) + 1
                             /\ q \o c[k + 1] = c[1]
                /\ F = {} => e \in Seq(Texts) /\ e = c[1]
  <2>1. begin = pos /\ pos \in 1 .. Len(text) + 1 /\ result \o c[pos] = c[1]
    BY <1>5, <1>7
  <2>. QED  BY ONLY <1>4, <2>1, SeparatorTurn
<1>8. CASE UNCHANGED splitsVars
  BY <1>4, <1>5, <1>8 DEF splitsVars
<1>9. CASE Splits!NextSeparator
  <2>. PICK k : k = Splits!Least(Splits!Separators(text, pos))
    OBVIOUS
  <2>1. /\ ~ done /\ ~ done' /\ Splits!Separators(text, pos) # {}
        /\ pos' = k + 1 /\ begin' = k + 1
        /\ result' = result \o Splits!Kept(Splits!Trimmed(SubSeq(text, begin, k - 1)))
    BY <1>9 DEF Splits!NextSeparator
  <2>. QED  BY <1>7, <2>1
<1>10. CASE Splits!LastPiece
  <2>1. /\ ~ done /\ done' /\ Splits!Separators(text, pos) = {}
        /\ result' = result \o Splits!Kept(SubSeq(text, begin, Len(text)))
    BY <1>10 DEF Splits!LastPiece
  <2>. QED  BY <1>7, <2>1
<1>11. ~ (Splits!OpenQuote \/ Splits!Escaped \/ Splits!CloseQuote \/ Splits!Delimiter
         \/ Splits!Plain \/ Splits!EndQuoted \/ Splits!NextPattern \/ Splits!NoPattern
         \/ Splits!EndPattern)
  BY <1>2 DEF Splits!OpenQuote, Splits!Escaped, Splits!CloseQuote, Splits!Delimiter,
     Splits!Plain, Splits!EndQuoted, Splits!NextPattern, Splits!NoPattern,
     Splits!EndPattern, Splits!Within
<1>. QED  BY <1>8, <1>9, <1>10, <1>11 DEF Splits!Next

LEMMA Marks ==
  /\ Splits!NoQuote # Splits!DoubleQuote /\ Splits!Backslash # Splits!DoubleQuote
  /\ Splits!DoubleQuote \in Splits!Quotes
  /\ Splits!DoubleQuote \in Letters /\ Splits!Backslash \in Letters
<1>1. Splits!NoQuote # Splits!DoubleQuote /\ Splits!Backslash # Splits!DoubleQuote
  BY Zenon DEF Splits!NoQuote, Splits!Backslash, Splits!DoubleQuote
<1>2. Splits!DoubleQuote \in Splits!Quotes
  BY Zenon DEF Splits!Quotes
<1>. QED  BY <1>1, <1>2 DEF Letters

LEMMA Wider ==
  ASSUME NEW X, NEW Y, X \subseteq Y, NEW s \in Seq(X)
  PROVE  s \in Seq(Y)
<1>1. Len(s) \in Nat /\ s = [i \in 1 .. Len(s) |-> s[i]] /\ \A i \in 1 .. Len(s) : s[i] \in Y
  OBVIOUS
<1>. QED  BY ONLY <1>1

LEMMA WordsAre ==
  ASSUME Splits!StringSplitsConstants, NEW w \in Words PROVE w \in Texts
<1>1. w \in Seq(Char \union Splits!Quotes) /\ Char \union Splits!Quotes \subseteq Letters
  BY DEF Splits!StringSplitsConstants, Letters
<1>. QED  BY <1>1, Wider DEF Texts

LEMMA OneMore ==
  ASSUME NEW u \in Seq(Letters), NEW n, n = Len(u), NEW i \in 1 .. n
  PROVE  Append(SubSeq(u, 1, i - 1), u[i]) = SubSeq(u, 1, i + 1 - 1)
<1>. PICK a : a = SubSeq(u, 1, i - 1)
  OBVIOUS
<1>. PICK k : k = i + 1
  OBVIOUS
<1>. PICK b : b = SubSeq(u, 1, k - 1)
  OBVIOUS
<1>1. i \in Nat /\ k \in Nat /\ 1 \in Nat /\ 1 <= i /\ 1 <= k /\ i <= Len(u) + 1 /\ k <= Len(u) + 1
      /\ k = i + 1 /\ 1 <= 1
  OBVIOUS
<1>2. a \in Seq(Letters) /\ Len(a) = i - 1 /\ \A j \in 1 .. i - 1 : a[j] = u[1 + j - 1]
  BY ONLY <1>1, u \in Seq(Letters), a = SubSeq(u, 1, i - 1), Piece
<1>3. b \in Seq(Letters) /\ Len(b) = k - 1 /\ \A j \in 1 .. k - 1 : b[j] = u[1 + j - 1]
  BY ONLY <1>1, u \in Seq(Letters), b = SubSeq(u, 1, k - 1), Piece
<1>4. u[i] \in Letters
  OBVIOUS
<1>. PICK h : h = Append(a, u[i])
  OBVIOUS
<1>5. h \in Seq(Letters) /\ Len(h) = Len(a) + 1 /\ \A j \in 1 .. Len(a) : h[j] = a[j]
      /\ h[Len(a) + 1] = u[i]
  BY ONLY <1>2, <1>4, h = Append(a, u[i]), AppendProperties
<1>6. Len(h) = i /\ Len(b) = i
  BY <1>1, <1>2, <1>3, <1>5
<1>7. ASSUME NEW j \in 1 .. i PROVE h[j] = b[j]
  <2>1. 1 + j - 1 = j /\ j \in 1 .. k - 1
    BY <1>1
  <2>2. b[j] = u[j]
    BY <1>3, <2>1
  <2>3. CASE j = i
    <3>1. Len(a) + 1 = i
      BY <1>1, <1>2
    <3>. QED  BY <1>5, <2>2, <2>3, <3>1
  <2>4. CASE j # i
    <3>1. j \in 1 .. i - 1 /\ Len(a) = i - 1
      BY <1>1, <1>2, <2>4
    <3>. QED  BY <1>2, <1>5, <2>1, <2>2, <3>1
  <2>. QED  BY <2>3, <2>4
<1>8. h = b
  BY ONLY <1>3, <1>5, <1>6, <1>7, SameText
<1>. QED  BY <1>8

(* What the words of the call are quoted to is laid out in the text: e[0]  *)
(* is the opening quote, e[i] where character i of the word begins, behind *)
(* it the closing quote and what follows it.                               *)
Written(t, u, e) ==
  /\ e[0] \in 1 .. Len(t) /\ t[e[0]] = Splits!DoubleQuote /\ e[1] = e[0] + 1
  /\ e[Len(u) + 1] \in 1 .. Len(t) /\ t[e[Len(u) + 1]] = Splits!DoubleQuote
  /\ e[Len(u) + 2] = e[Len(u) + 1] + 1
  /\ \A i \in 1 .. Len(u) :
       /\ e[i] \in 1 .. Len(t)
       /\ u[i] = Splits!DoubleQuote => /\ e[i] + 1 \in 1 .. Len(t) /\ t[e[i]] = Splits!Backslash
                         /\ t[e[i] + 1] = u[i] /\ e[i + 1] = e[i] + 2
       /\ u[i] # Splits!DoubleQuote => t[e[i]] = u[i] /\ e[i + 1] = e[i] + 1

(* StringSplit is at the word u, r behind it: before it, in it, or after.  *)
At(u, e, r) ==
  /\ result = r /\ ~ done
  /\ \/ quote = Splits!NoQuote /\ elt = <<>> /\ pos = e[0]
     \/ \E i \in 1 .. Len(u) + 1 :
          quote = Splits!DoubleQuote /\ elt = SubSeq(u, 1, i - 1) /\ pos = e[i]
     \/ quote = Splits!NoQuote /\ elt = u /\ pos = e[Len(u) + 2]

(* Between the words stands a delimiter.                                   *)
Between(t, v, w, e, f) ==
  LET x == e[Len(v) + 2] IN
  /\ Written(t, v, e) /\ Written(t, w, f)
  /\ e[0] = 1 /\ x \in 1 .. Len(t) /\ f[0] = x + 1 /\ f[Len(w) + 2] = Len(t) + 1
  /\ t[x] \in Delims \ (Splits!Quotes \union {Splits!Backslash})

QuotedAt(v, w, e, f) ==
  /\ v \in Words /\ w \in Words
  /\ words = <<v, w>> /\ Between(text, v, w, e, f)
  /\ \/ At(v, e, <<>>)
     \/ At(w, f, Splits!Kept(v))
     \/ done /\ quote = Splits!NoQuote /\ result = Splits!Kept(v) \o Splits!Kept(w)

QuotedInv ==
  mode = "quoted" /\ words # <<>> => \E v, w, e, f : QuotedAt(v, w, e, f)

(* A turn inside a word leads on in it, or to the end of the text or the   *)
(* delimiter behind it.                                                    *)
LEMMA WordTurn ==
  ASSUME NEW u \in Words, NEW e, Written(text, u, e), NEW r, At(u, e, r),
         Splits!StringSplitsConstants, text \in Texts, mode = "quoted",
         Splits!Next
  PROVE  \/ At(u, e, r)'
         \/ quote = Splits!NoQuote /\ elt = u /\ pos = e[Len(u) + 2]
<1>. PICK n : n = Len(u)
  OBVIOUS
<1>. SUFFICES ASSUME ~ (quote = Splits!NoQuote /\ elt = u /\ pos = e[n + 2])
     PROVE  At(u, e, r)'
  OBVIOUS
<1>1. /\ u \in Seq(Letters) /\ n \in Nat /\ Len(text) \in Nat
      /\ \A i \in 1 .. n : u[i] # Splits!Backslash
  <2>1. u \in Seq(Letters)
    BY WordsAre DEF Texts
  <2>2. DOMAIN u = 1 .. n /\ \A i \in DOMAIN u : u[i] # Splits!Backslash
    BY <2>1 DEF Splits!StringSplitsConstants
  <2>. QED  BY <2>1, <2>2 DEF Texts
<1>2. /\ Splits!NoQuote # Splits!DoubleQuote /\ Splits!Backslash # Splits!DoubleQuote
      /\ Splits!DoubleQuote \in Splits!Quotes
  BY Marks
<1>3. ~ done /\ result = r
  BY DEF At
<1>4. Splits!OpenQuote \/ Splits!Escaped \/ Splits!CloseQuote \/ Splits!Delimiter
      \/ Splits!Plain \/ Splits!EndQuoted
  BY DEF Splits!Next, Splits!NextPattern, Splits!NoPattern, Splits!EndPattern,
     Splits!NextSeparator, Splits!LastPiece
<1>5. CASE quote = Splits!NoQuote /\ elt = <<>> /\ pos = e[0]
  <2>1. pos \in 1 .. Len(text) /\ text[pos] = Splits!DoubleQuote /\ e[1] = pos + 1
    BY <1>5 DEF Written
  <2>2. Splits!OpenQuote
    <3>1. ~ Splits!Escape
      BY <1>2, <2>1 DEF Splits!Escape, Splits!Here
    <3>2. ~ Splits!Escaped /\ ~ Splits!CloseQuote
      BY <1>5, <3>1 DEF Splits!Escaped, Splits!CloseQuote
    <3>3. ~ Splits!Delimiter /\ ~ Splits!Plain
      BY <1>2, <1>5, <2>1 DEF Splits!Delimiter, Splits!Plain, Splits!Here
    <3>4. ~ Splits!EndQuoted
      <4>1. pos \in 1 .. Len(text)
        BY <2>1
      <4>. QED  BY <1>1, <4>1 DEF Splits!EndQuoted
    <3>. QED  BY <1>4, <3>2, <3>3, <3>4
  <2>3. quote' = Splits!DoubleQuote /\ pos' = e[1] /\ elt' = <<>> /\ result' = r /\ ~ done'
    BY <1>3, <1>5, <2>1, <2>2 DEF Splits!OpenQuote, Splits!Here
  <2>4. SubSeq(u, 1, 1 - 1) = <<>> /\ 1 \in 1 .. n + 1
    BY <1>1
  <2>. QED  BY <2>3, <2>4 DEF At
<1>6. ASSUME NEW i \in 1 .. n + 1, quote = Splits!DoubleQuote /\ elt = SubSeq(u, 1, i - 1) /\ pos = e[i]
      PROVE  At(u, e, r)'
  <2>1. ~ Splits!OpenQuote /\ ~ Splits!Delimiter
    BY <1>2, <1>6 DEF Splits!OpenQuote, Splits!Delimiter
  <2>2. CASE i = n + 1
    <3>1. pos \in 1 .. Len(text) /\ text[pos] = Splits!DoubleQuote /\ e[n + 2] = pos + 1
      BY <1>6, <2>2 DEF Written
    <3>2. Splits!CloseQuote
      <4>1. ~ Splits!Escaped
        BY <1>2, <3>1 DEF Splits!Escaped, Splits!Escape, Splits!Here
      <4>2. ~ Splits!Plain
        BY <1>2, <1>6, <3>1 DEF Splits!Plain, Splits!Here
      <4>3. ~ Splits!EndQuoted
        <5>1. pos \in 1 .. Len(text)
          BY <3>1
        <5>. QED  BY <1>1, <5>1 DEF Splits!EndQuoted
      <4>. QED  BY <1>4, <2>1, <4>1, <4>2, <4>3
    <3>3. quote' = Splits!NoQuote /\ pos' = e[n + 2] /\ elt' = elt /\ result' = r /\ ~ done'
      BY <1>3, <3>1, <3>2 DEF Splits!CloseQuote
    <3>4. elt = u
      <4>1. i - 1 = n
        BY <1>1, <2>2
      <4>2. SubSeq(u, 1, n) = u
        BY <1>1
      <4>. QED  BY <1>6, <4>1, <4>2
    <3>. QED  BY <3>3, <3>4 DEF At
  <2>3. CASE i \in 1 .. n
    <3>1. pos \in 1 .. Len(text) /\ ~ Splits!EndQuoted
      <4>1. pos \in 1 .. Len(text)
        BY <1>6, <2>3 DEF Written
      <4>. QED  BY <1>1, <4>1 DEF Splits!EndQuoted
    <3>2. Append(SubSeq(u, 1, i - 1), u[i]) = SubSeq(u, 1, i + 1 - 1)
      BY ONLY <1>1, <2>3, n = Len(u), OneMore
    <3>3. SUFFICES ASSUME quote' = quote, elt' = Append(elt, u[i]), pos' = e[i + 1],
                          result' = result, done' = done
          PROVE  At(u, e, r)'
      <4>1. CASE u[i] = Splits!DoubleQuote
        <5>1. pos + 1 \in 1 .. Len(text) /\ text[pos] = Splits!Backslash
              /\ text[pos + 1] = u[i] /\ e[i + 1] = pos + 2
          BY <1>6, <2>3, <4>1 DEF Written
        <5>2. pos < Len(text)
          BY <1>1, <3>1, <5>1
        <5>3. Splits!Escape
          BY <1>2, <1>6, <4>1, <5>1, <5>2 DEF Splits!Escape, Splits!Here, Splits!Follows
        <5>4. Splits!Escaped
          <6>1. ~ Splits!CloseQuote
            BY <1>2, <1>6, <5>1 DEF Splits!CloseQuote, Splits!Here
          <6>2. ~ Splits!Plain
            BY <5>3 DEF Splits!Plain
          <6>. QED  BY <1>4, <2>1, <3>1, <6>1, <6>2
        <5>5. quote' = quote /\ elt' = Append(elt, u[i]) /\ pos' = pos + 1 + 1
              /\ result' = result /\ done' = done
          BY <5>1, <5>4 DEF Splits!Escaped, Splits!Take
        <5>6. pos + 1 + 1 = pos + 2
          BY <3>1
        <5>. QED  BY <3>3, <5>1, <5>5, <5>6
      <4>2. CASE u[i] # Splits!DoubleQuote
        <5>1. text[pos] = u[i] /\ e[i + 1] = pos + 1 /\ u[i] # Splits!Backslash
          BY <1>1, <1>6, <2>3, <4>2 DEF Written
        <5>2. Splits!Plain
          <6>1. ~ Splits!CloseQuote
            BY <1>6, <4>2, <5>1 DEF Splits!CloseQuote, Splits!Here
          <6>2. ~ Splits!Escaped
            BY <5>1 DEF Splits!Escaped, Splits!Escape, Splits!Here
          <6>. QED  BY <1>4, <2>1, <3>1, <6>1, <6>2
        <5>3. quote' = quote /\ elt' = Append(elt, text[pos + 0]) /\ pos' = pos + 0 + 1
              /\ result' = result /\ done' = done
          BY <5>2 DEF Splits!Plain, Splits!Take
        <5>4. pos + 0 = pos
          BY <3>1
        <5>. QED  BY <3>3, <5>1, <5>3, <5>4
      <4>. QED  BY <4>1, <4>2
    <3>4. i + 1 \in 1 .. n + 1
      BY <1>1, <2>3
    <3>5. elt' = SubSeq(u, 1, i + 1 - 1)
      BY <1>6, <3>2, <3>3
    <3>6. result' = r /\ ~ done' /\ quote' = Splits!DoubleQuote /\ pos' = e[i + 1]
      BY <1>3, <1>6, <3>3
    <3>. PICK k : k = i + 1
      OBVIOUS
    <3>7. /\ k \in 1 .. Len(u) + 1 /\ elt' = SubSeq(u, 1, k - 1) /\ quote' = Splits!DoubleQuote
          /\ pos' = e[k]
      BY <3>4, <3>5, <3>6
    <3>8. \E j \in 1 .. Len(u) + 1 :
            quote' = Splits!DoubleQuote /\ elt' = SubSeq(u, 1, j - 1) /\ pos' = e[j]
      BY <3>7, Zenon
    <3>. QED  BY ONLY <3>6, <3>8 DEF At
  <2>. QED  BY <1>1, <2>2, <2>3
<1>. QED  BY <1>5, <1>6 DEF At

LEMMA QuotedStep ==
  ASSUME QuotedInv, Splits!StringSplitsConstants, text \in Texts,
         [Splits!Next]_splitsVars
  PROVE  QuotedInv'
<1>. SUFFICES ASSUME mode' = "quoted", words' # <<>>
     PROVE  \E v, w, e, f : QuotedAt(v, w, e, f)'
  BY DEF QuotedInv
<1>1. mode' = mode /\ text' = text /\ words' = words
  BY InputStays
<1>2. mode = "quoted"
  BY <1>1
<1>3. PICK v, w, e, f : QuotedAt(v, w, e, f)
  BY <1>1, <1>2, Zenon DEF QuotedInv
<1>4. /\ v \in Words /\ w \in Words
      /\ words = <<v, w>> /\ Between(text, v, w, e, f)
      /\ \/ At(v, e, <<>>)
         \/ At(w, f, Splits!Kept(v))
         \/ done /\ quote = Splits!NoQuote /\ result = Splits!Kept(v) \o Splits!Kept(w)
  BY <1>3 DEF QuotedAt
<1>. DEFINE Goal ==
        \/ At(v, e, <<>>)'
        \/ At(w, f, Splits!Kept(v))'
        \/ /\ done' /\ quote' = Splits!NoQuote
           /\ result' = Splits!Kept(v) \o Splits!Kept(w)
<1>5. Goal => QuotedAt(v, w, e, f)'
  BY ONLY <1>1, <1>4 DEF QuotedAt
<1>. SUFFICES Goal
  BY <1>5
<1>6. CASE UNCHANGED splitsVars
  BY <1>4, <1>6 DEF splitsVars, At
<1>. SUFFICES ASSUME Splits!Next
     PROVE  Goal
  BY <1>6
<1>7. ~ done
  BY DEF Splits!Next, Splits!Within, Splits!OpenQuote, Splits!Escaped, Splits!CloseQuote,
     Splits!Delimiter, Splits!Plain, Splits!EndQuoted, Splits!NextPattern,
     Splits!NoPattern, Splits!EndPattern, Splits!NextSeparator, Splits!LastPiece
<1>8. Splits!OpenQuote \/ Splits!Escaped \/ Splits!CloseQuote \/ Splits!Delimiter
      \/ Splits!Plain \/ Splits!EndQuoted
  BY <1>2 DEF Splits!Next, Splits!NextPattern, Splits!NoPattern, Splits!EndPattern,
     Splits!NextSeparator, Splits!LastPiece
<1>9. /\ v \in Seq(Letters) /\ Splits!Kept(v) \in Seq(Seq(Letters))
      /\ Len(text) \in Nat
  <2>1. v \in Seq(Letters) /\ Len(text) \in Nat
    BY <1>4, WordsAre DEF Texts
  <2>. QED  BY <2>1, KeptWord
<1>10. CASE At(v, e, <<>>)
  <2>1. Written(text, v, e)
    BY <1>4 DEF Between
  <2>2. CASE At(v, e, <<>>)'
    BY <2>2
  <2>3. CASE quote = Splits!NoQuote /\ elt = v /\ pos = e[Len(v) + 2]
    <3>1. /\ pos \in 1 .. Len(text) /\ f[0] = pos + 1
          /\ text[pos] \in Delims /\ text[pos] \notin Splits!Quotes
          /\ text[pos] # Splits!Backslash
      BY <1>4, <2>3 DEF Between
    <3>2. Splits!Delimiter
      <4>1. ~ Splits!OpenQuote /\ ~ Splits!CloseQuote
        BY <2>3, <3>1 DEF Splits!OpenQuote, Splits!CloseQuote, Splits!Here
      <4>2. ~ Splits!Escaped
        BY <3>1 DEF Splits!Escaped, Splits!Escape, Splits!Here
      <4>3. ~ Splits!Plain
        BY <2>3, <3>1 DEF Splits!Plain, Splits!Here
      <4>4. ~ Splits!EndQuoted
        BY <1>9, <3>1 DEF Splits!EndQuoted
      <4>. QED  BY <1>8, <4>1, <4>2, <4>3, <4>4
    <3>3. result' = result \o Splits!Kept(v) /\ elt' = <<>> /\ pos' = f[0]
          /\ quote' = Splits!NoQuote /\ ~ done'
      BY <1>7, <2>3, <3>1, <3>2 DEF Splits!Delimiter, Splits!PushElt
    <3>4. result = <<>>
      BY <1>10 DEF At
    <3>5. <<>> \o Splits!Kept(v) = Splits!Kept(v)
      BY <1>9, NothingJoined
    <3>6. At(w, f, Splits!Kept(v))'
      BY <3>3, <3>4, <3>5 DEF At
    <3>. QED  BY <3>6
  <2>. QED  BY <1>2, <1>4, <1>10, <2>1, <2>2, <2>3, WordTurn
<1>11. CASE At(w, f, Splits!Kept(v))
  <2>1. Written(text, w, f)
    BY <1>4 DEF Between
  <2>2. CASE At(w, f, Splits!Kept(v))'
    BY <2>2
  <2>3. CASE quote = Splits!NoQuote /\ elt = w /\ pos = f[Len(w) + 2]
    <3>1. pos = Len(text) + 1
      BY <1>4, <2>3 DEF Between
    <3>2. Splits!EndQuoted
      BY <1>8, <1>9, <3>1 DEF Splits!Within, Splits!OpenQuote, Splits!Escaped,
         Splits!CloseQuote, Splits!Delimiter, Splits!Plain
    <3>3. result = Splits!Kept(v)
      BY <1>11 DEF At
    <3>. QED  BY <2>3, <3>2, <3>3 DEF Splits!EndQuoted, Splits!PushElt
  <2>. QED  BY <1>2, <1>4, <1>11, <2>1, <2>2, <2>3, WordTurn
<1>. QED  BY <1>4, <1>7, <1>10, <1>11

(* The rows of a list of rows lie one behind the other in what they are    *)
(* joined to, row k from b[k] on.                                          *)
Laid(ss, t, b) ==
  /\ b[1] = 1 /\ b[Len(ss) + 1] = Len(t) + 1
  /\ \A k \in 1 .. Len(ss) :
       /\ b[k] \in 1 .. Len(t) + 1
       /\ b[k + 1] = b[k] + Len(ss[k]) /\ b[k + 1] <= Len(t) + 1
       /\ \A j \in 1 .. Len(ss[k]) : t[b[k] + j - 1] = ss[k][j]

LEMMA FlattenLaid ==
  ASSUME NEW ss \in Seq(Texts), Len(ss) # 0
  PROVE  FlattenSeq(ss) \in Texts /\ \E b : Laid(ss, FlattenSeq(ss), b)
<1>. PICK n : n = Len(ss)
  OBVIOUS
<1>1. n \in Nat /\ n # 0 /\ \A k \in 1 .. n : ss[k] \in Texts
  OBVIOUS
<1>2. PICK g : Joins(g, ss, n) /\ FlattenSeq(ss) = g[n]
  BY <1>1, FlattenJoins
<1>. PICK b : b = [k \in 1 .. n + 1 |-> IF k = 1 THEN 1 ELSE Len(g[k - 1]) + 1]
  OBVIOUS
<1>. DEFINE Lies(t, i) ==
              /\ b[i] \in 1 .. Len(t) + 1
              /\ b[i + 1] = b[i] + Len(ss[i]) /\ b[i + 1] <= Len(t) + 1
              /\ \A j \in 1 .. Len(ss[i]) : t[b[i] + j - 1] = ss[i][j]
            Right(k) == g[k] \in Texts /\ \A i \in 1 .. k : Lies(g[k], i)
            S == {k \in 1 .. n : ~ Right(k)}
<1>3. ASSUME S # {} PROVE FALSE
  <2>. HIDE DEF Right
  <2>1. PICK k \in S : \A j \in S : k <= j
    <3>1. S \subseteq Nat
      OBVIOUS
    <3>. QED  BY <1>3, <3>1, Smallest
  <2>2. k \in 1 .. n /\ ~ Right(k) /\ k \in Nat
    BY <2>1
  <2>. PICK p : p = IF k = 1 THEN <<>> ELSE g[k - 1]
    OBVIOUS
  <2>. PICK a : a = ss[k]
    OBVIOUS
  <2>3. p \in Texts /\ \A i \in 1 .. k - 1 : Lies(p, i)
    <3>1. CASE k = 1
      <4>1. p \in Texts
        BY <3>1 DEF Texts
      <4>2. 1 .. k - 1 = {}
        BY <3>1
      <4>. QED  BY <4>1, <4>2
    <3>2. CASE k # 1
      <4>1. k - 1 \in 1 .. n /\ ~ (k <= k - 1)
        BY <1>1, <2>2, <3>2
      <4>2. Right(k - 1)
        BY <2>1, <4>1
      <4>3. p = g[k - 1]
        BY <3>2
      <4>4. p \in Texts /\ \A i \in 1 .. k - 1 : Lies(p, i)
        BY ONLY <4>2, <4>3 DEF Right
      <4>. QED  BY <4>4
    <3>. QED  BY <3>1, <3>2
  <2>4. b[k] = Len(p) + 1 /\ Len(p) \in Nat
    <3>1. k \in 1 .. n + 1
      BY <1>1, <2>2
    <3>2. b[k] = IF k = 1 THEN 1 ELSE Len(g[k - 1]) + 1
      BY <3>1
    <3>3. Len(p) \in Nat /\ Len(<<>>) = 0
      BY <2>3 DEF Texts
    <3>. QED  BY <3>2, <3>3
  <2>5. g[k] = p \o a
    <3>1. g[k] = IF k = 1 THEN ss[k] ELSE g[k - 1] \o ss[k]
      BY <1>2, <2>2 DEF Joins
    <3>2. <<>> \o a = a
      BY <1>1, <2>2 DEF Texts
    <3>. QED  BY <3>1, <3>2
  <2>. PICK t : t = g[k]
    OBVIOUS
  <2>. PICK m : m = Len(p)
    OBVIOUS
  <2>. PICK l : l = Len(a)
    OBVIOUS
  <2>6. /\ m \in Nat /\ l \in Nat /\ t \in Texts /\ Len(t) = m + l
        /\ \A j \in 1 .. m : t[j] = p[j]
        /\ \A j \in 1 .. l : t[m + j] = a[j]
    <3>1. p \in Seq(Letters) /\ a \in Seq(Letters)
      BY <1>1, <2>2, <2>3 DEF Texts
    <3>2. t = p \o a
      BY <2>5
    <3>3. /\ m \in Nat /\ l \in Nat /\ p \o a \in Seq(Letters) /\ Len(p \o a) = m + l
          /\ \A j \in 1 .. m : (p \o a)[j] = p[j]
          /\ \A j \in 1 .. l : (p \o a)[m + j] = a[j]
      BY ONLY <3>1, m = Len(p), l = Len(a), Added
    <3>4. p \o a \in Texts
      BY ONLY <3>3 DEF Texts
    <3>. QED  BY ONLY <3>2, <3>3, <3>4
  <2>7. b[k + 1] = Len(t) + 1
    <3>1. k + 1 \in 1 .. n + 1 /\ k + 1 # 1 /\ k + 1 - 1 = k
      BY <1>1, <2>2
    <3>. QED  BY <3>1
  <2>8. Lies(t, k)
    <3>1. b[k] = m + 1 /\ Len(ss[k]) = l /\ b[k + 1] = m + l + 1
      BY <2>4, <2>6, <2>7
    <3>2. b[k] \in 1 .. Len(t) + 1
      BY ONLY <2>6, <3>1
    <3>3. b[k + 1] = b[k] + Len(ss[k]) /\ b[k + 1] <= Len(t) + 1
      BY ONLY <2>6, <3>1
    <3>4. ASSUME NEW j \in 1 .. Len(ss[k]) PROVE t[b[k] + j - 1] = ss[k][j]
      <4>1. j \in 1 .. l
        OBVIOUS
      <4>2. b[k] + j - 1 = m + j
        BY <2>4, <2>6, <4>1
      <4>. QED  BY <2>6, <4>1, <4>2
    <3>. QED  BY <3>2, <3>3, <3>4
  <2>9. ASSUME NEW i \in 1 .. k - 1 PROVE Lies(t, i)
    <3>. PICK q : q = Len(ss[i])
      OBVIOUS
    <3>. PICK x : x = b[i]
      OBVIOUS
    <3>1. /\ x \in 1 .. m + 1 /\ b[i + 1] = x + q /\ b[i + 1] <= m + 1
          /\ \A j \in 1 .. q : p[x + j - 1] = ss[i][j]
      BY <2>3
    <3>2. q \in Nat
      <4>1. i \in 1 .. n
        BY <1>1, <2>2
      <4>. QED  BY <1>1, <4>1 DEF Texts
    <3>3. x \in 1 .. Len(t) + 1 /\ b[i + 1] <= Len(t) + 1
      BY ONLY <2>6, <3>1, <3>2
    <3>4. ASSUME NEW j \in 1 .. q PROVE t[x + j - 1] = ss[i][j]
      <4>1. x + j - 1 \in 1 .. m
        BY ONLY <2>6, <3>1, <3>2, j \in 1 .. q
      <4>. QED  BY <2>6, <3>1, <4>1
    <3>. QED  BY <3>1, <3>3, <3>4
  <2>10. \A i \in 1 .. k : i \in 1 .. k - 1 \/ i = k
    BY <2>2
  <2>. HIDE DEF Lies
  <2>11. \A i \in 1 .. k : Lies(t, i)
    BY <2>8, <2>9, <2>10
  <2>12. Right(k)
    BY <2>6, <2>11 DEF Right
  <2>. QED  BY <2>2, <2>12
<1>4. n \in 1 .. n /\ n \notin S
  <2>. HIDE DEF S
  <2>. QED  BY <1>1, <1>3
<1>5. Right(n)
  <2>. HIDE DEF Right
  <2>. QED  BY <1>4
<1>6. b[1] = 1 /\ b[n + 1] = Len(g[n]) + 1
  <2>1. 1 \in 1 .. n + 1 /\ n + 1 \in 1 .. n + 1 /\ n + 1 # 1 /\ n + 1 - 1 = n
    BY <1>1
  <2>. QED  BY <2>1
<1>7. Laid(ss, g[n], b)
  BY <1>5, <1>6 DEF Laid
<1>. QED  BY <1>2, <1>5, <1>7

LEMMA SmallSeqs ==
  ASSUME NEW X, NEW x \in X, NEW y \in X
  PROVE  <<x>> \in Seq(X) /\ <<y, x>> \in Seq(X)
OBVIOUS

(* The pieces of a word in quotes.                                         *)
LEMMA QuotedIs ==
  ASSUME NEW w \in Texts, NEW n, n = Len(w)
  PROVE  LET q == Splits!Quoted(w) IN
         /\ n \in Nat /\ q \in Seq(Texts) /\ Len(q) = n + 2
         /\ q[1] = <<Splits!DoubleQuote>> /\ q[n + 2] = <<Splits!DoubleQuote>>
         /\ \A i \in 1 .. n : q[i + 1] = IF w[i] = Splits!DoubleQuote THEN <<Splits!Backslash, w[i]>>
                                         ELSE <<w[i]>>
<1>. PICK a : a = <<<<Splits!DoubleQuote>>>>
  OBVIOUS
<1>. PICK m : m = [i \in 1 .. n |->
                     IF w[i] = Splits!DoubleQuote THEN <<Splits!Backslash, w[i]>> ELSE <<w[i]>>]
  OBVIOUS
<1>. PICK h : h = a \o m
  OBVIOUS
<1>. PICK q : q = h \o a
  OBVIOUS
<1>1. n \in Nat /\ \A i \in 1 .. n : w[i] \in Letters
  BY DEF Texts
<1>2. a \in Seq(Texts) /\ Len(a) = 1 /\ a[1] = <<Splits!DoubleQuote>>
  <2>1. <<Splits!DoubleQuote>> \in Texts
    BY Marks, SmallSeqs DEF Texts
  <2>. QED  BY <2>1
<1>3. m \in Seq(Texts) /\ Len(m) = n
      /\ \A i \in 1 .. n : m[i] = IF w[i] = Splits!DoubleQuote THEN <<Splits!Backslash, w[i]>>
                                  ELSE <<w[i]>>
  <2>1. ASSUME NEW i \in 1 .. n PROVE m[i] \in Texts
    <3>1. w[i] \in Letters /\ Splits!Backslash \in Letters
      BY <1>1, Marks
    <3>2. <<w[i]>> \in Seq(Letters) /\ <<Splits!Backslash, w[i]>> \in Seq(Letters)
      BY ONLY <3>1, SmallSeqs
    <3>3. m[i] = IF w[i] = Splits!DoubleQuote THEN <<Splits!Backslash, w[i]>> ELSE <<w[i]>>
      OBVIOUS
    <3>. QED  BY ONLY <3>2, <3>3 DEF Texts
  <2>2. m = [i \in 1 .. n |-> m[i]]
    OBVIOUS
  <2>3. m \in Seq(Texts) /\ Len(m) = n
    BY ONLY <1>1, <2>1, <2>2
  <2>. QED  BY <2>3
<1>4. /\ h \in Seq(Texts) /\ Len(h) = 1 + n
      /\ \A j \in 1 .. 1 : h[j] = a[j]
      /\ \A j \in 1 .. n : h[1 + j] = m[j]
  <2>. PICK x : x = Len(a)
    OBVIOUS
  <2>. PICK y : y = Len(m)
    OBVIOUS
  <2>1. /\ a \o m \in Seq(Texts) /\ Len(a \o m) = x + y
        /\ \A j \in 1 .. x : (a \o m)[j] = a[j]
        /\ \A j \in 1 .. y : (a \o m)[x + j] = m[j]
    <3>1. a \in Seq(Texts) /\ m \in Seq(Texts)
      BY <1>2, <1>3
    <3>. QED  BY ONLY <3>1, x = Len(a), y = Len(m), Added
  <2>2. x = 1 /\ y = n
    BY <1>2, <1>3
  <2>. QED  BY <2>1, <2>2
<1>5. /\ q \in Seq(Texts) /\ Len(q) = 1 + n + 1
      /\ \A j \in 1 .. 1 + n : q[j] = h[j]
      /\ \A j \in 1 .. 1 : q[1 + n + j] = a[j]
  <2>. PICK x : x = Len(h)
    OBVIOUS
  <2>. PICK y : y = Len(a)
    OBVIOUS
  <2>1. /\ h \o a \in Seq(Texts) /\ Len(h \o a) = x + y
        /\ \A j \in 1 .. x : (h \o a)[j] = h[j]
        /\ \A j \in 1 .. y : (h \o a)[x + j] = a[j]
    <3>1. h \in Seq(Texts) /\ a \in Seq(Texts)
      BY <1>2, <1>4
    <3>. QED  BY ONLY <3>1, x = Len(h), y = Len(a), Added
  <2>2. x = 1 + n /\ y = 1
    BY <1>2, <1>4
  <2>. QED  BY <2>1, <2>2
<1>6. q = Splits!Quoted(w)
  BY DEF Splits!Quoted
<1>7. q[1] = <<Splits!DoubleQuote>>
  <2>1. 1 \in 1 .. 1 /\ 1 \in 1 .. 1 + n
    BY <1>1
  <2>. QED  BY ONLY <1>2, <1>4, <1>5, <2>1
<1>8. q[n + 2] = <<Splits!DoubleQuote>>
  <2>1. 1 + n + 1 = n + 2 /\ 1 \in 1 .. 1
    BY <1>1
  <2>. QED  BY ONLY <1>2, <1>5, <2>1
<1>9. ASSUME NEW i \in 1 .. n PROVE q[i + 1] = m[i]
  <2>1. 1 + i \in 1 .. 1 + n /\ 1 + i = i + 1
    BY <1>1
  <2>2. h[1 + i] = m[i] /\ q[1 + i] = h[1 + i]
    BY <1>4, <1>5, <2>1
  <2>. QED  BY <2>1, <2>2
<1>10. Len(q) = n + 2
  BY <1>1, <1>5
<1>. QED  BY <1>1, <1>3, <1>5, <1>6, <1>7, <1>8, <1>9, <1>10

(* What is quoted for a call is laid out as QuotedInv has it.              *)
LEMMA QuotedLaidOut ==
  ASSUME Splits!StringSplitsConstants, NEW v \in Words, NEW w \in Words,
         NEW d \in Delims \ (Splits!Quotes \union {Splits!Backslash})
  PROVE  LET t == FlattenSeq(Splits!Quoted(v) \o <<<<d>>>> \o Splits!Quoted(w))
         IN  t \in Texts /\ \E e, f : Between(t, v, w, e, f)
<1>. PICK n : n = Len(v)
  OBVIOUS
<1>. PICK m : m = Len(w)
  OBVIOUS
<1>. PICK a : a = Splits!Quoted(v)
  OBVIOUS
<1>. PICK z : z = Splits!Quoted(w)
  OBVIOUS
<1>. PICK o : o = <<<<d>>>>
  OBVIOUS
<1>. PICK h : h = a \o o
  OBVIOUS
<1>. PICK ss : ss = h \o z
  OBVIOUS
<1>. PICK t : t = FlattenSeq(ss)
  OBVIOUS
<1>1. v \in Texts /\ w \in Texts
  BY WordsAre
<1>2. /\ n \in Nat /\ a \in Seq(Texts) /\ Len(a) = n + 2
      /\ a[1] = <<Splits!DoubleQuote>> /\ a[n + 2] = <<Splits!DoubleQuote>>
      /\ \A i \in 1 .. n : a[i + 1] = IF v[i] = Splits!DoubleQuote
                                      THEN <<Splits!Backslash, v[i]>> ELSE <<v[i]>>
  BY <1>1, QuotedIs
<1>3. /\ m \in Nat /\ z \in Seq(Texts) /\ Len(z) = m + 2
      /\ z[1] = <<Splits!DoubleQuote>> /\ z[m + 2] = <<Splits!DoubleQuote>>
      /\ \A i \in 1 .. m : z[i + 1] = IF w[i] = Splits!DoubleQuote
                                      THEN <<Splits!Backslash, w[i]>> ELSE <<w[i]>>
  BY <1>1, QuotedIs
<1>4. o \in Seq(Texts) /\ Len(o) = 1 /\ o[1] = <<d>>
  <2>1. d \in Letters
    BY DEF Letters
  <2>2. <<d>> \in Texts
    BY <2>1, SmallSeqs DEF Texts
  <2>. QED  BY <2>2
<1>5. /\ h \in Seq(Texts) /\ Len(h) = n + 3
      /\ \A j \in 1 .. n + 2 : h[j] = a[j]
      /\ h[n + 3] = <<d>>
  <2>. PICK x : x = Len(a)
    OBVIOUS
  <2>. PICK y : y = Len(o)
    OBVIOUS
  <2>1. /\ a \o o \in Seq(Texts) /\ Len(a \o o) = x + y
        /\ \A j \in 1 .. x : (a \o o)[j] = a[j]
        /\ \A j \in 1 .. y : (a \o o)[x + j] = o[j]
    <3>1. a \in Seq(Texts) /\ o \in Seq(Texts)
      BY <1>2, <1>4
    <3>. QED  BY ONLY <3>1, x = Len(a), y = Len(o), Added
  <2>2. x = n + 2 /\ y = 1 /\ x + 1 = n + 3 /\ 1 \in 1 .. y
    BY <1>2, <1>4
  <2>3. h[x + 1] = o[1]
    BY <2>1, <2>2
  <2>. QED  BY <1>4, <2>1, <2>2, <2>3
<1>6. /\ ss \in Seq(Texts) /\ Len(ss) = n + 3 + m + 2
      /\ \A j \in 1 .. n + 3 : ss[j] = h[j]
      /\ \A j \in 1 .. m + 2 : ss[n + 3 + j] = z[j]
  <2>. PICK x : x = Len(h)
    OBVIOUS
  <2>. PICK y : y = Len(z)
    OBVIOUS
  <2>1. /\ h \o z \in Seq(Texts) /\ Len(h \o z) = x + y
        /\ \A j \in 1 .. x : (h \o z)[j] = h[j]
        /\ \A j \in 1 .. y : (h \o z)[x + j] = z[j]
    <3>1. h \in Seq(Texts) /\ z \in Seq(Texts)
      BY <1>3, <1>5
    <3>. QED  BY ONLY <3>1, x = Len(h), y = Len(z), Added
  <2>2. x = n + 3 /\ y = m + 2
    BY <1>3, <1>5
  <2>3. x + y = n + 3 + m + 2
    BY ONLY <1>2, <1>3, <2>2
  <2>. QED  BY ONLY <2>1, <2>2, <2>3, ss = h \o z
<1>. PICK N : N = Len(ss)
  OBVIOUS
<1>7. N = n + m + 5 /\ N # 0 /\ N \in Nat
  BY <1>2, <1>3, <1>6
<1>8. t \in Texts /\ \E b : Laid(ss, t, b)
  BY <1>6, <1>7, FlattenLaid
<1>9. PICK b : Laid(ss, t, b)
  BY <1>8
<1>10. /\ b[1] = 1 /\ b[N + 1] = Len(t) + 1 /\ Len(t) \in Nat
       /\ \A k \in 1 .. N :
            /\ b[k] \in 1 .. Len(t) + 1
            /\ b[k + 1] = b[k] + Len(ss[k]) /\ b[k + 1] <= Len(t) + 1
            /\ \A j \in 1 .. Len(ss[k]) : t[b[k] + j - 1] = ss[k][j]
  <2>1. Len(t) \in Nat
    BY <1>8 DEF Texts
  <2>2. /\ b[1] = 1 /\ b[Len(ss) + 1] = Len(t) + 1
        /\ \A k \in 1 .. Len(ss) :
             /\ b[k] \in 1 .. Len(t) + 1
             /\ b[k + 1] = b[k] + Len(ss[k]) /\ b[k + 1] <= Len(t) + 1
             /\ \A j \in 1 .. Len(ss[k]) : t[b[k] + j - 1] = ss[k][j]
    BY ONLY <1>9 DEF Laid
  <2>. QED  BY ONLY <2>1, <2>2, N = Len(ss)
<1>11. ASSUME NEW k \in 1 .. N, NEW c, ss[k] = <<c>>
       PROVE  b[k] \in 1 .. Len(t) /\ t[b[k]] = c /\ b[k + 1] = b[k] + 1
  <2>. PICK x : x = b[k]
    OBVIOUS
  <2>. PICK l : l = Len(t)
    OBVIOUS
  <2>1. /\ x \in 1 .. l + 1 /\ b[k + 1] = x + Len(ss[k]) /\ b[k + 1] <= l + 1 /\ l \in Nat
        /\ \A j \in 1 .. Len(ss[k]) : t[x + j - 1] = ss[k][j]
    BY ONLY <1>10, k \in 1 .. N, x = b[k], l = Len(t)
  <2>2. Len(ss[k]) = 1 /\ ss[k][1] = c
    BY ONLY <1>11
  <2>3. /\ x \in 1 .. l + 1 /\ b[k + 1] = x + 1 /\ b[k + 1] <= l + 1 /\ l \in Nat
        /\ t[x + 1 - 1] = c
    <3>1. \A j \in 1 .. 1 : t[x + j - 1] = ss[k][j]
      BY ONLY <2>1, <2>2
    <3>2. t[x + 1 - 1] = ss[k][1]
      BY ONLY <3>1
    <3>. QED  BY ONLY <2>1, <2>2, <3>2
  <2>4. x \in 1 .. l /\ x + 1 - 1 = x
    BY ONLY <2>3
  <2>. QED  BY <2>3, <2>4
<1>12. ASSUME NEW k \in 1 .. N, NEW c, NEW g, ss[k] = <<c, g>>
       PROVE  /\ b[k] \in 1 .. Len(t) /\ b[k] + 1 \in 1 .. Len(t)
              /\ t[b[k]] = c /\ t[b[k] + 1] = g /\ b[k + 1] = b[k] + 2
  <2>. PICK x : x = b[k]
    OBVIOUS
  <2>. PICK l : l = Len(t)
    OBVIOUS
  <2>1. /\ x \in 1 .. l + 1 /\ b[k + 1] = x + Len(ss[k]) /\ b[k + 1] <= l + 1 /\ l \in Nat
        /\ \A j \in 1 .. Len(ss[k]) : t[x + j - 1] = ss[k][j]
    BY ONLY <1>10, k \in 1 .. N, x = b[k], l = Len(t)
  <2>2. Len(ss[k]) = 2 /\ ss[k][1] = c /\ ss[k][2] = g
    BY ONLY <1>12
  <2>3. /\ x \in 1 .. l + 1 /\ b[k + 1] = x + 2 /\ b[k + 1] <= l + 1 /\ l \in Nat
        /\ t[x + 1 - 1] = c /\ t[x + 2 - 1] = g
    <3>1. \A j \in 1 .. 2 : t[x + j - 1] = ss[k][j]
      BY ONLY <2>1, <2>2
    <3>2. t[x + 1 - 1] = ss[k][1] /\ t[x + 2 - 1] = ss[k][2]
      BY ONLY <3>1
    <3>. QED  BY ONLY <2>1, <2>2, <3>2
  <2>4. x \in 1 .. l /\ x + 1 \in 1 .. l /\ x + 1 - 1 = x /\ x + 2 - 1 = x + 1
    BY ONLY <2>3
  <2>. QED  BY <2>3, <2>4
<1>13. ASSUME NEW u, NEW k \in Nat, k <= N, NEW s \in Nat, k + s + 2 <= N, s = Len(u),
              ss[k + 1] = <<Splits!DoubleQuote>>, ss[k + s + 2] = <<Splits!DoubleQuote>>,
              \A i \in 1 .. s : ss[k + i + 1] = IF u[i] = Splits!DoubleQuote
                                  THEN <<Splits!Backslash, u[i]>> ELSE <<u[i]>>
       PROVE  Written(t, u, [i \in 0 .. s + 2 |-> b[k + i + 1]])
  <2>. PICK e : e = [i \in 0 .. s + 2 |-> b[k + i + 1]]
    OBVIOUS
  <2>1. \A i \in 0 .. s + 2 : e[i] = b[k + i + 1]
    OBVIOUS
  <2>2. e[0] = b[k + 1] /\ e[s + 1] = b[k + s + 2] /\ e[s + 2] = b[k + s + 2 + 1]
    <3>1. /\ 0 \in 0 .. s + 2 /\ s + 1 \in 0 .. s + 2 /\ s + 2 \in 0 .. s + 2
          /\ k + 0 + 1 = k + 1 /\ k + (s + 1) + 1 = k + s + 2
          /\ k + (s + 2) + 1 = k + s + 2 + 1
      BY ONLY s \in Nat, k \in Nat
    <3>. QED  BY <2>1, <3>1
  <2>3. e[0] \in 1 .. Len(t) /\ t[e[0]] = Splits!DoubleQuote /\ e[1] = e[0] + 1
    <3>1. k + 1 \in 1 .. N /\ k + 1 + 1 = k + 1 + 1 /\ 1 \in 0 .. s + 2
      BY ONLY <1>7, <1>13
    <3>2. e[1] = b[k + 1 + 1]
      BY <2>1, <3>1
    <3>3. b[k + 1] \in 1 .. Len(t) /\ t[b[k + 1]] = Splits!DoubleQuote
          /\ b[k + 1 + 1] = b[k + 1] + 1
      BY ONLY <1>11, <1>13, <3>1
    <3>. QED  BY ONLY <2>2, <3>2, <3>3
  <2>4. e[s + 1] \in 1 .. Len(t) /\ t[e[s + 1]] = Splits!DoubleQuote /\ e[s + 2] = e[s + 1] + 1
    <3>1. k + s + 2 \in 1 .. N
      BY ONLY <1>7, <1>13
    <3>2. b[k + s + 2] \in 1 .. Len(t) /\ t[b[k + s + 2]] = Splits!DoubleQuote
          /\ b[k + s + 2 + 1] = b[k + s + 2] + 1
      BY ONLY <1>11, <1>13, <3>1
    <3>. QED  BY ONLY <2>2, <3>2
  <2>5. ASSUME NEW i \in 1 .. s
        PROVE  /\ e[i] \in 1 .. Len(t)
               /\ u[i] = Splits!DoubleQuote =>
                    /\ e[i] + 1 \in 1 .. Len(t) /\ t[e[i]] = Splits!Backslash
                    /\ t[e[i] + 1] = u[i] /\ e[i + 1] = e[i] + 2
               /\ u[i] # Splits!DoubleQuote => t[e[i]] = u[i] /\ e[i + 1] = e[i] + 1
    <3>. PICK x : x = k + i + 1
      OBVIOUS
    <3>1. x \in 1 .. N /\ i \in 0 .. s + 2 /\ i + 1 \in 0 .. s + 2 /\ k + (i + 1) + 1 = x + 1
      BY ONLY <1>7, <1>13, i \in 1 .. s, x = k + i + 1
    <3>2. e[i] = b[x] /\ e[i + 1] = b[x + 1]
      BY <2>1, <3>1
    <3>3. ss[x] = IF u[i] = Splits!DoubleQuote
                  THEN <<Splits!Backslash, u[i]>> ELSE <<u[i]>>
      BY <1>13
    <3>4. CASE u[i] = Splits!DoubleQuote
      BY ONLY <1>12, <3>1, <3>2, <3>3, <3>4
    <3>5. CASE u[i] # Splits!DoubleQuote
      BY ONLY <1>11, <3>1, <3>2, <3>3, <3>5
    <3>. QED  BY <3>4, <3>5
  <2>6. Written(t, u, e)
    BY ONLY <1>13, <2>3, <2>4, <2>5 DEF Written
  <2>. QED  BY <2>6
<1>. PICK e : e = [i \in 0 .. n + 2 |-> b[0 + i + 1]]
  OBVIOUS
<1>. PICK f : f = [i \in 0 .. m + 2 |-> b[n + 3 + i + 1]]
  OBVIOUS
<1>14. Written(t, v, e)
  <2>1. \A j \in 1 .. n + 2 : ss[j] = a[j]
    <3>1. \A j \in 1 .. n + 2 : j \in 1 .. n + 3
      BY <1>2
    <3>. QED  BY <1>5, <1>6, <3>1
  <2>2. ss[0 + 1] = <<Splits!DoubleQuote>> /\ ss[0 + n + 2] = <<Splits!DoubleQuote>>
    <3>1. 0 + 1 = 1 /\ 0 + n + 2 = n + 2 /\ 1 \in 1 .. n + 2 /\ n + 2 \in 1 .. n + 2
      BY <1>2
    <3>. QED  BY <1>2, <2>1, <3>1
  <2>3. ASSUME NEW i \in 1 .. n
        PROVE  ss[0 + i + 1] = IF v[i] = Splits!DoubleQuote
                               THEN <<Splits!Backslash, v[i]>> ELSE <<v[i]>>
    <3>1. 0 + i + 1 = i + 1 /\ i + 1 \in 1 .. n + 2
      BY <1>2
    <3>. QED  BY <1>2, <2>1, <3>1
  <2>4. 0 \in Nat /\ 0 <= N /\ 0 + n + 2 <= N
    BY <1>2, <1>3, <1>7
  <2>. QED  BY ONLY <1>2, <1>13, <2>2, <2>3, <2>4, n = Len(v),
               e = [i \in 0 .. n + 2 |-> b[0 + i + 1]]
<1>15. Written(t, w, f)
  <2>1. ss[n + 3 + 1] = <<Splits!DoubleQuote>> /\ ss[n + 3 + m + 2] = <<Splits!DoubleQuote>>
    <3>1. n + 3 + m + 2 = n + 3 + (m + 2) /\ 1 \in 1 .. m + 2 /\ m + 2 \in 1 .. m + 2
      BY <1>2, <1>3
    <3>. QED  BY <1>3, <1>6, <3>1
  <2>2. ASSUME NEW i \in 1 .. m
        PROVE  ss[n + 3 + i + 1] = IF w[i] = Splits!DoubleQuote
                                   THEN <<Splits!Backslash, w[i]>> ELSE <<w[i]>>
    <3>1. n + 3 + i + 1 = n + 3 + (i + 1) /\ i + 1 \in 1 .. m + 2
      BY <1>2, <1>3
    <3>2. ss[n + 3 + (i + 1)] = z[i + 1]
      BY <1>6, <3>1
    <3>. QED  BY <1>3, <3>1, <3>2
  <2>3. n + 3 \in Nat /\ n + 3 <= N /\ n + 3 + m + 2 <= N
    BY <1>2, <1>3, <1>7
  <2>. QED  BY ONLY <1>3, <1>13, <2>1, <2>2, <2>3, m = Len(w),
               f = [i \in 0 .. m + 2 |-> b[n + 3 + i + 1]]
<1>16. e[0] = 1 /\ e[n + 2] = b[n + 3] /\ f[0] = b[n + 3 + 1] /\ f[m + 2] = Len(t) + 1
  <2>1. /\ 0 \in 0 .. n + 2 /\ n + 2 \in 0 .. n + 2 /\ 0 \in 0 .. m + 2 /\ m + 2 \in 0 .. m + 2
        /\ 0 + 0 + 1 = 1 /\ 0 + (n + 2) + 1 = n + 3 /\ n + 3 + 0 + 1 = n + 3 + 1
        /\ n + 3 + (m + 2) + 1 = N + 1
    BY ONLY <1>2, <1>3, <1>7
  <2>2. e[0] = b[0 + 0 + 1] /\ e[n + 2] = b[0 + (n + 2) + 1]
    BY <2>1
  <2>3. f[0] = b[n + 3 + 0 + 1] /\ f[m + 2] = b[n + 3 + (m + 2) + 1]
    BY <2>1
  <2>. QED  BY <1>10, <2>1, <2>2, <2>3
<1>17. b[n + 3] \in 1 .. Len(t) /\ t[b[n + 3]] = d /\ b[n + 3 + 1] = b[n + 3] + 1
  <2>1. n + 3 \in 1 .. N /\ n + 3 \in 1 .. n + 3
    BY <1>2, <1>3, <1>7
  <2>2. ss[n + 3] = <<d>>
    BY <1>5, <1>6, <2>1
  <2>. QED  BY <1>11, <2>1, <2>2
<1>18. Between(t, v, w, e, f)
  BY ONLY <1>14, <1>15, <1>16, <1>17, n = Len(v), m = Len(w),
          d \in Delims \ (Splits!Quotes \union {Splits!Backslash}) DEF Between
<1>. QED  BY <1>8, <1>18

(* What holds while any of the three functions runs.                       *)
SplitsInv ==
  /\ done \in BOOLEAN /\ text \in Texts
  /\ words # <<>> => mode = "quoted"
  /\ pattern # <<>> => mode = "pattern"
  /\ QuotedInv /\ PatternInv /\ SeparatorsInv

LEMMA InitSplits ==
  ASSUME Splits!StringSplitsConstants, Splits!Init PROVE SplitsInv
<1>1. ASSUME NEW s \in Splits!Text PROVE s \in Texts
  <2>1. PICK n \in 0 .. MaxText : s \in [1 .. n -> Char]
    BY DEF Splits!Text
  <2>2. n \in Nat
    BY DEF Splits!StringSplitsConstants
  <2>3. s \in Seq(Char) /\ Char \subseteq Letters
    BY <2>1, <2>2 DEF Letters
  <2>. QED  BY <2>3, Wider DEF Texts
<1>2. ASSUME NEW p \in Patterns PROVE p \in Texts
  <2>1. p \in Seq(Char) /\ Char \subseteq Letters
    BY DEF Splits!StringSplitsConstants, Letters
  <2>. QED  BY <2>1, Wider DEF Texts
<1>3. CASE \E s \in Splits!Text : Splits!Start("quoted", s, <<>>, <<>>)
  BY <1>1, <1>3 DEF Splits!Start, SplitsInv, QuotedInv, PatternInv, SeparatorsInv
<1>4. CASE \E v, w \in Words, d \in Delims \ (Splits!Quotes \union {Splits!Backslash}) :
             Splits!Start("quoted",
                          Splits!FlattenSeq(Splits!Quoted(v) \o <<<<d>>>> \o Splits!Quoted(w)),
                          <<>>, <<v, w>>)
  <2>1. PICK v \in Words, w \in Words, d \in Delims \ (Splits!Quotes \union {Splits!Backslash}) :
             Splits!Start("quoted",
                          Splits!FlattenSeq(Splits!Quoted(v) \o <<<<d>>>> \o Splits!Quoted(w)),
                          <<>>, <<v, w>>)
    BY <1>4, Zenon
  <2>2. text \in Texts /\ \E e, f : Between(text, v, w, e, f)
    <3>1. text = Splits!FlattenSeq(Splits!Quoted(v) \o <<<<d>>>> \o Splits!Quoted(w))
      BY <2>1 DEF Splits!Start
    <3>2. text = FlattenSeq(Splits!Quoted(v) \o <<<<d>>>> \o Splits!Quoted(w))
      BY <3>1, Zenon DEF Splits!FlattenSeq, FlattenSeq
    <3>. QED  BY <3>2, QuotedLaidOut
  <2>3. PICK e, f : Between(text, v, w, e, f)
    BY <2>2
  <2>4. /\ mode = "quoted" /\ words = <<v, w>> /\ done = FALSE /\ pattern = <<>>
        /\ pos = 1 /\ elt = <<>> /\ quote = Splits!NoQuote /\ result = <<>>
    BY <2>1 DEF Splits!Start
  <2>5. At(v, e, <<>>)
    <3>1. e[0] = 1
      BY <2>3 DEF Between
    <3>. QED  BY <2>4, <3>1 DEF At
  <2>6. QuotedInv
    BY <2>3, <2>4, <2>5 DEF QuotedAt, QuotedInv
  <2>. QED  BY <2>2, <2>4, <2>6 DEF SplitsInv, PatternInv, SeparatorsInv
<1>5. CASE \E s \in Splits!Text, p \in Patterns : Splits!Start("pattern", s \o p, p, <<>>)
  <2>1. PICK s \in Splits!Text, p \in Patterns : Splits!Start("pattern", s \o p, p, <<>>)
    BY <1>5
  <2>2. s \in Texts /\ p \in Texts
    BY <1>1, <1>2
  <2>3. /\ mode = "pattern" /\ done = FALSE /\ words = <<>> /\ text = s \o p /\ pattern = p
        /\ pos = 1 /\ result = <<>>
    BY <2>1 DEF Splits!Start
  <2>4. text \in Texts
    BY <2>2, <2>3 DEF Texts
  <2>5. PatternInv
    <3>1. CASE p = <<>>
      BY <2>3, <3>1 DEF PatternInv
    <3>2. CASE p # <<>>
      <4>1. 1 \in 1 .. Len(s) + 1
        BY <2>2 DEF Texts
      <4>2. ASSUME NEW e \in 1 .. Len(s) + 1, NEW c, Cut(c, Prefix(s, e), p)
            PROVE  <<>> \o c[1] = c[1]
        <5>1. 1 \in 1 .. Len(Prefix(s, e)) + 1
          <6>1. Len(Prefix(s, e)) \in Nat
            BY <2>2, PrefixIs
          <6>. QED  BY <6>1
        <5>2. c[1] \in Seq(Texts)
          BY <4>2, <5>1 DEF Cut
        <5>. QED  BY <5>2, NothingJoined
      <4>3. <<>> \in Seq(Texts)
        OBVIOUS
      <4>4. PatternAt(s)
        BY ONLY <2>2, <2>3, <4>1, <4>2, <4>3 DEF PatternAt
      <4>. QED  BY <2>3, <3>2, <4>4 DEF PatternInv
    <3>. QED  BY <3>1, <3>2
  <2>. QED  BY <2>3, <2>4, <2>5 DEF SplitsInv, QuotedInv, SeparatorsInv
<1>6. CASE \E s \in Splits!Text : Splits!Start("separators", s, <<>>, <<>>)
  <2>1. PICK s \in Splits!Text : Splits!Start("separators", s, <<>>, <<>>)
    BY <1>6
  <2>2. s \in Texts
    BY <1>1
  <2>3. /\ mode = "separators" /\ done = FALSE /\ words = <<>> /\ text = s
        /\ pattern = <<>> /\ pos = 1 /\ begin = 1 /\ result = <<>>
    BY <2>1 DEF Splits!Start
  <2>4. SeparatorsInv
    <3>1. PICK c : Separated(c, s)
      BY <2>2, SeparatedExists
    <3>2. 1 \in 1 .. Len(s) + 1
      BY <2>2 DEF Texts
    <3>3. c[1] \in Seq(Texts)
      BY <3>1, <3>2 DEF Separated
    <3>4. <<>> \o c[1] = c[1] /\ <<>> \in Seq(Texts)
      BY <3>3, NothingJoined
    <3>5. SeparatorsAt(c)
      BY ONLY <2>2, <2>3, <3>1, <3>2, <3>4 DEF SeparatorsAt
    <3>. QED  BY <3>5 DEF SeparatorsInv
  <2>. QED  BY <2>2, <2>3, <2>4 DEF SplitsInv, QuotedInv, PatternInv
<1>. QED  BY <1>3, <1>4, <1>5, <1>6 DEF Splits!Init

LEMMA SplitsStep ==
  ASSUME Splits!StringSplitsConstants, SplitsInv, [Splits!Next]_splitsVars
  PROVE  SplitsInv'
<1>1. text \in Texts /\ QuotedInv /\ PatternInv /\ SeparatorsInv
  BY DEF SplitsInv
<1>2. QuotedInv' /\ PatternInv' /\ SeparatorsInv'
  BY <1>1, QuotedStep, PatternsStep, SeparatorsStep
<1>3. mode' = mode /\ text' = text /\ pattern' = pattern /\ words' = words
      /\ done' \in {done, TRUE}
  BY InputStays
<1>. QED  BY <1>2, <1>3 DEF SplitsInv

LEMMA SplitsInvRight ==
  ASSUME SplitsInv PROVE SplitsRight
<1>1. Splits!QuotedComeBack
  <2>. SUFFICES ASSUME done, words # <<>>
       PROVE  quote = Splits!NoQuote
              /\ result = Splits!Kept(words[1]) \o Splits!Kept(words[2])
    BY DEF Splits!QuotedComeBack
  <2>1. PICK v, w, e, f : QuotedAt(v, w, e, f)
    BY Zenon DEF SplitsInv, QuotedInv
  <2>2. words[1] = v /\ words[2] = w
    BY <2>1 DEF QuotedAt
  <2>3. ~ At(v, e, <<>>) /\ ~ At(w, f, Splits!Kept(v))
    BY DEF At
  <2>. QED  BY <2>1, <2>2, <2>3 DEF QuotedAt
<1>2. Splits!PatternsCutOut
  <2>. SUFFICES ASSUME done, mode = "pattern", pattern # <<>>
       PROVE  LET str == SubSeq(text, 1, Len(text) - Len(pattern)) IN
              \E n \in Splits!Overlaps(str, pattern) :
                result = Splits!CutOut(SubSeq(str, 1, Len(str) - n), pattern)
    BY Zenon DEF Splits!PatternsCutOut, SplitsInv, PatternInv
  <2>1. PICK s : PatternAt(s)
    BY Zenon DEF SplitsInv, PatternInv
  <2>2. /\ s \in Texts /\ pattern \in Texts /\ text = s \o pattern
        /\ \E n \in Splits!Overlaps(s, pattern) :
             result = Splits!CutOut(SubSeq(s, 1, Len(s) - n), pattern)
    BY <2>1 DEF PatternAt
  <2>3. SubSeq(text, 1, Len(text) - Len(pattern)) = s
    <3>. PICK m : m = Len(s)
      OBVIOUS
    <3>. PICK k : k = m + 1
      OBVIOUS
    <3>1. /\ m \in Nat /\ k \in Nat /\ k - 1 = m /\ 1 \in Nat /\ 1 <= 1 /\ 1 <= k
          /\ k <= Len(s) + 1 /\ Len(text) - Len(pattern) = m
      BY <2>2 DEF Texts
    <3>2. SubSeq(s \o pattern, 1, k - 1) = SubSeq(s, 1, k - 1)
      BY ONLY <2>2, <3>1, PieceBefore
    <3>3. SubSeq(s, 1, m) = s
      <4>1. s \in Seq(Letters)
        BY <2>2 DEF Texts
      <4>. QED  BY ONLY <4>1, m = Len(s)
    <3>. QED  BY <2>2, <3>1, <3>2, <3>3
  <2>. QED  BY ONLY <2>2, <2>3, Zenon
<1>3. Splits!TrimmedPieces
  <2>. SUFFICES ASSUME done, mode = "separators" PROVE result = Splits!Pieces(text)
    BY DEF Splits!TrimmedPieces
  <2>1. PICK c : SeparatorsAt(c)
    BY Zenon DEF SplitsInv, SeparatorsInv
  <2>. QED  BY <2>1 DEF SeparatorsAt, Separated
<1>. QED  BY <1>1, <1>2, <1>3 DEF SplitsRight, Splits!SplitsRight

(* For all texts, patterns and separators: quoted words come back; split   *)
(* gives what is left of the text without the patterns, less an end that a *)
(* pattern which ends as it begins takes with it, and returns with the     *)
(* empty pattern for the empty text alone; and SplitStringToVec gives what *)
(* lies between the separators (IString.cpp:197-244, 702-751).             *)
THEOREM SplitsCorrect == Splits!Spec => []SplitsRight
<1>1. Splits!StringSplitsConstants
  BY SplitsConstants
<1>2. Splits!Init => SplitsInv
  BY <1>1, InitSplits
<1>3. SplitsInv /\ [Splits!Next]_(Splits!vars) => SplitsInv'
  <2>. SUFFICES ASSUME SplitsInv, [Splits!Next]_(Splits!vars) PROVE SplitsInv'
    OBVIOUS
  <2>1. [Splits!Next]_splitsVars
    BY DEF Splits!vars, splitsVars
  <2>. QED  BY <1>1, <2>1, SplitsStep
<1>4. SplitsInv => SplitsRight
  BY SplitsInvRight
<1>. QED  BY <1>2, <1>3, <1>4, PTL DEF Splits!Spec
=============================================================================
