---------------------------- MODULE StringSplits ----------------------------
(***************************************************************************)
(* The three functions of IString.cpp that cut a text into pieces, each a  *)
(* loop over the text: StringSplit, which knows quotes and escapes; split, *)
(* which looks for a pattern; and SplitStringToVec, which looks for        *)
(* separators and trims what lies between them.                            *)
(***************************************************************************)
EXTENDS Naturals, Sequences, SequencesExt, FiniteSets

CONSTANTS
  Char,       \* the characters of the texts
  Delims,     \* delim of StringSplit, cSeparator of SplitStringToVec
  Patterns,   \* pattern of split
  MaxLength,  \* bound: the length of the texts
  Words       \* the words that are quoted and split again

Space == " "
Backslash == "\\"
DoubleQuote == "\""
Quotes == {"'", DoubleQuote}

StringSplitsConstants ==
  /\ MaxLength \in Nat
  /\ Patterns \subseteq Seq(Char) /\ Words \subseteq Seq(Char \union Quotes)
  /\ \A w \in Words : \A i \in DOMAIN w : w[i] # Backslash

VARIABLES
  mode,     \* the function that runs: "quoted", "pattern" or "separators"
  done,     \* it has returned
  text,     \* str, strSrc
  pattern,
  pos,      \* the position of the loop, from 1
  begin,    \* iCurrentPos: where the current piece begins
  elt,      \* the piece StringSplit collects
  quote,    \* quoteChar, or NoQuote
  result,
  words     \* the words the text was quoted from, or <<>>

vars == <<mode, done, text, pattern, pos, begin, elt, quote, result, words>>

NoQuote == ""
Text == UNION {[1 .. n -> Char] : n \in 0 .. MaxLength}

(* A word in double quotes, the double quotes in it escaped, in the        *)
(* pieces that the loop takes in a turn.                                   *)
Quoted(w) ==
  <<<<DoubleQuote>>>>
  \o [i \in 1 .. Len(w) |->
        IF w[i] = DoubleQuote THEN <<Backslash, w[i]>> ELSE <<w[i]>>]
  \o <<<<DoubleQuote>>>>

(* The list of a word, less the empty word.                                *)
Kept(w) == IF w = <<>> THEN <<>> ELSE <<w>>

----------------------------------------------------------------------------

Start(m, s, p, ws) ==
  /\ mode = m /\ done = FALSE /\ text = s /\ pattern = p /\ words = ws
  /\ pos = 1 /\ begin = 1 /\ elt = <<>> /\ quote = NoQuote /\ result = <<>>

Init ==
  \/ \E s \in Text : Start("quoted", s, <<>>, <<>>)
  \/ \E v, w \in Words, d \in Delims \ (Quotes \union {Backslash}) :
       Start("quoted", FlattenSeq(Quoted(v) \o <<<<d>>>> \o Quoted(w)), <<>>,
             <<v, w>>)
  \/ \E s \in Text, p \in Patterns : Start("pattern", s \o p, p, <<>>)
  \/ \E s \in Text : Start("separators", s, <<>>, <<>>)

Input == <<text, pattern, words>>

----------------------------------------------------------------------------
(* StringSplit.                                                            *)

Here == text[pos]
Follows(c) == pos < Len(text) /\ text[pos + 1] \in c

(* Outside quotes either quote can be escaped, inside them only their own. *)
Escape ==
  Here = Backslash /\ Follows(IF quote = NoQuote THEN Quotes ELSE {quote})

Take(n) ==
  /\ elt' = Append(elt, text[pos + n])
  /\ pos' = pos + n + 1
  /\ UNCHANGED <<mode, done, begin, quote, result, Input>>

Within == mode = "quoted" /\ ~done /\ pos <= Len(text)

OpenQuote ==
  /\ Within /\ quote = NoQuote /\ Here \in Quotes
  /\ quote' = Here
  /\ pos' = pos + 1
  /\ UNCHANGED <<mode, done, begin, elt, result, Input>>

Escaped == Within /\ Escape /\ Take(1)

(* Mutant: the other kind of quote ends a quotation too.                   *)
CloseQuoteMutant ==
  /\ Within /\ quote # NoQuote /\ Here \in Quotes
  /\ quote' = NoQuote
  /\ pos' = pos + 1
  /\ UNCHANGED <<mode, done, begin, elt, result, Input>>

CloseQuote ==
  /\ Within /\ quote # NoQuote /\ Here = quote
  /\ quote' = NoQuote
  /\ pos' = pos + 1
  /\ UNCHANGED <<mode, done, begin, elt, result, Input>>

PushElt == result \o Kept(elt)

Delimiter ==
  /\ Within /\ quote = NoQuote /\ Here \in Delims \ Quotes /\ ~Escape
  /\ result' = PushElt
  /\ elt' = <<>>
  /\ pos' = pos + 1
  /\ UNCHANGED <<mode, done, begin, quote, Input>>

Plain ==
  /\ Within /\ ~Escape
  /\ Here \notin (IF quote = NoQuote THEN Quotes \union Delims ELSE {quote})
  /\ Take(0)

(* The answer is whether the quotation was closed: quote = NoQuote.        *)
EndQuoted ==
  /\ mode = "quoted" /\ ~done /\ pos > Len(text)
  /\ result' = PushElt
  /\ done' = TRUE
  /\ UNCHANGED <<mode, pos, begin, elt, quote, Input>>

----------------------------------------------------------------------------
(* split.  The text has had the pattern added to its end.  The empty       *)
(* pattern is found at pos itself, and the turn leaves everything as it is. *)

(* str.find(pattern, i)                                                    *)
Found(s, p, i) ==
  {k \in i .. Len(s) - Len(p) + 1 : SubSeq(s, k, k + Len(p) - 1) = p}

Least(S) == CHOOSE k \in S : \A j \in S : k <= j

NextPattern ==
  LET k == Least(Found(text, pattern, pos)) IN
  /\ mode = "pattern" /\ ~done /\ pos <= Len(text)
  /\ Found(text, pattern, pos) # {}
  /\ result' = result \o Kept(SubSeq(text, pos, k - 1))
  /\ pos' = k + Len(pattern)
  /\ UNCHANGED <<mode, done, begin, elt, quote, Input>>

(* What is left without a pattern is stepped over character by character.  *)
NoPattern ==
  /\ mode = "pattern" /\ ~done /\ pos <= Len(text)
  /\ Found(text, pattern, pos) = {}
  /\ pos' = pos + 1
  /\ UNCHANGED <<mode, done, begin, elt, quote, result, Input>>

EndPattern ==
  /\ mode = "pattern" /\ ~done /\ pos > Len(text)
  /\ done' = TRUE
  /\ UNCHANGED <<mode, pos, begin, elt, quote, result, Input>>

----------------------------------------------------------------------------
(* SplitStringToVec.                                                       *)

Trimmed(s) ==
  LET solid == {i \in 1 .. Len(s) : s[i] # Space}
  IN  IF solid = {} THEN <<>>
      ELSE SubSeq(s, Least(solid),
                  CHOOSE i \in solid : \A j \in solid : j <= i)

(* strSrc.find_first_of(cSeparator, i)                                     *)
Separators(s, i) == {k \in i .. Len(s) : s[k] \in Delims}

NextSeparator ==
  LET k == Least(Separators(text, pos)) IN
  /\ mode = "separators" /\ ~done /\ Separators(text, pos) # {}
  /\ result' = result \o Kept(Trimmed(SubSeq(text, begin, k - 1)))
  /\ pos' = k + 1 /\ begin' = k + 1
  /\ UNCHANGED <<mode, done, elt, quote, Input>>

(* The last piece is not trimmed.                                          *)
LastPiece ==
  /\ mode = "separators" /\ ~done /\ Separators(text, pos) = {}
  /\ result' = result \o Kept(SubSeq(text, begin, Len(text)))
  /\ done' = TRUE
  /\ UNCHANGED <<mode, pos, begin, elt, quote, Input>>

----------------------------------------------------------------------------

Next ==
  \/ OpenQuote \/ Escaped \/ CloseQuote \/ Delimiter \/ Plain \/ EndQuoted
  \/ NextPattern \/ NoPattern \/ EndPattern
  \/ NextSeparator \/ LastPiece

Spec == Init /\ [][Next]_vars /\ WF_vars(Next)

----------------------------------------------------------------------------
(* Properties.                                                             *)

(* A list of words without backslashes that is quoted, joined and split    *)
(* again is the list, less its empty words: delimiters and quotes of       *)
(* either kind inside the words change nothing (IString.cpp:197-244).      *)
QuotedComeBack ==
  done /\ words # <<>> =>
    quote = NoQuote /\ result = Kept(words[1]) \o Kept(words[2])

(* What is left of a text when the leftmost patterns are cut out, one      *)
(* after the other.                                                        *)
CutOut(s, p) ==
  LET from[i \in 1 .. Len(s) + 1] ==
        IF Found(s, p, i) = {} THEN Kept(SubSeq(s, i, Len(s)))
        ELSE Kept(SubSeq(s, i, Least(Found(s, p, i)) - 1))
             \o from[Least(Found(s, p, i)) + Len(p)]
  IN  from[1]

Borders(p) ==
  {n \in 1 .. Len(p) - 1 : SubSeq(p, 1, n) = SubSeq(p, Len(p) - n + 1, Len(p))}

(* How much of the end of s can go with a pattern that is put behind it    *)
(* and that ends as it begins.                                             *)
Overlaps(s, p) ==
  {n \in 0 .. Len(s) :
     /\ n # 0 => Len(p) - n \in Borders(p)
     /\ SubSeq(s, Len(s) - n + 1, Len(s)) = SubSeq(p, 1, n)}

(* The pieces of split are what is left of the text when the patterns are  *)
(* cut out, less its end where that makes a pattern with what was added    *)
(* behind it; with the empty pattern split returns for no text but the     *)
(* empty one (IString.cpp:702-721).                                        *)
PatternsCutOut ==
  done /\ mode = "pattern" =>
    LET str == SubSeq(text, 1, Len(text) - Len(pattern)) IN
    IF pattern = <<>> THEN text = <<>>
    ELSE \E n \in Overlaps(str, pattern) :
           result = CutOut(SubSeq(str, 1, Len(str) - n), pattern)

(* What lies between the separators of a text, trimmed, less what is       *)
(* empty; and as it is what lies behind the last.                          *)
Pieces(s) ==
  LET from[i \in 1 .. Len(s) + 1] ==
        IF Separators(s, i) = {} THEN Kept(SubSeq(s, i, Len(s)))
        ELSE Kept(Trimmed(SubSeq(s, i, Least(Separators(s, i)) - 1)))
             \o from[Least(Separators(s, i)) + 1]
  IN  from[1]

(* SplitStringToVec gives the text between the separators, trimmed, less   *)
(* what is empty; only what follows the last separator is given as it is   *)
(* (IString.cpp:723-751).                                                  *)
TrimmedPieces == done /\ mode = "separators" => result = Pieces(text)

(* Each of the three functions gives the right pieces.                     *)
SplitsRight == QuotedComeBack /\ PatternsCutOut /\ TrimmedPieces

(* The empty pattern is found before every character.                      *)
Hangs == mode = "pattern" /\ pattern = <<>> /\ text # <<>>

(* Every call comes to its end, but for split with the empty pattern,      *)
(* whose loop goes back where it was (IString.cpp:709-719).                *)
SplittersEnd == ~ Hangs ~> done
=============================================================================
